---- MODULE Spec2Model ----
(***************************************************************************)
(* Network replication core (Source/Engine/Networking/NetworkReplicator.cpp)*)
(* modelled as a session: one server (client id 0) and a fixed set of       *)
(* clients.  Every peer has its own object world, registry (Objects),       *)
(* spawn and despawn queues and id remapping table.  Reliable-ordered       *)
(* traffic is one FIFO per direction and client, unreliable traffic is a    *)
(* set of messages in flight that may be delivered in any order or never.   *)
(***************************************************************************)
EXTENDS Integers, Sequences, FiniteSets, TLC

\* ------------------------------------------------------------------ bounds

\* Network ticks in one behaviour, all peers together.
MaxTicks == 3
\* Number of calls of the public entry points in one behaviour.
MaxOps == 3
\* Unreliable messages in flight at one time; a send beyond it is lost.
MaxUnrel == 2
\* Objects one peer may create while handling spawn messages.
MaxNew == 2

\* ------------------------------------------------------- program constants

\* NetworkManager::ServerClientId
ServerClientId == 0
Server == ServerClientId
Clients == {1, 2}
Peers == {Server} \cup Clients

OwnedAuthoritative == "OwnedAuthoritative"
Replicated == "Replicated"
RoleNone == "None"
Roles == {OwnedAuthoritative, Replicated, RoleNone}

\* Guid::Empty
EmptyGuid == 0

\* Scripting types of the session's objects.
Types == {"TA", "TB"}
NoType == "none"

\* The scripting types known to the type system: the session's object types
\* and a hierarchy TObject <- TScript <- {TLeaf, TNet}, TNet <- TNetSub, in
\* which TNet and TNetSub implement INetworkSerializable.
ScriptingTypes == Types \cup {"TObject", "TScript", "TLeaf", "TNet", "TNetSub"}

\* ScriptingType::GetBaseType: the handle of the base type, null for a root.
GetBaseType(type) ==
    IF type = "TScript" THEN "TObject"
    ELSE IF type \in {"TLeaf", "TNet"} THEN "TScript"
    ELSE IF type = "TNetSub" THEN "TNet"
    ELSE NoType

\* ScriptingType::GetInterface(INetworkSerializable::TypeInitializer): the
\* VTableOffset of the interface in the type, NoInterface if the type does
\* not implement it.
NoInterface == 0
GetInterface(type) ==
    IF type = "TNet" THEN 8
    ELSE IF type = "TNetSub" THEN 16
    ELSE NoInterface

\* struct Serializer: Methods[2] and Tags[2].
Serializer(serialize, deserialize, serializeTag, deserializeTag) ==
    [methods |-> <<serialize, deserialize>>,
     tags |-> <<serializeTag, deserializeTag>>]

\* The serializers game code registers.
UserSerializers ==
    {Serializer("Serialize1", "Deserialize1", 1, 2),
     Serializer("Serialize2", "Deserialize2", 3, 4)}

\* Object states carried in a replicate payload.
Vals == {0, 1}

VARIABLES
    world,      \* world[p]: the objects alive on peer p, id -> attributes
    newCount,   \* newCount[p]: objects p has created from spawn messages
    reg,        \* reg[p]: Objects, the set of NetworkReplicatedObject of p
    spawnQ,     \* spawnQ[p]: SpawnQueue
    despawnQ,   \* despawnQ[p]: DespawnQueue
    remap,      \* remap[p]: IdsRemappingTable, remote id -> local id
    published,  \* published[p]: Scripting::ObjectsLookupIdMapping is set
    cstate,     \* cstate[c]: "offline", "connected" or "left"
    newClients, \* NewClients (server)
    frame,      \* frame[p]: NetworkManager::Frame
    updated,    \* updated[p]: the frames of p that NetworkReplicatorUpdate ended
    serial,     \* serial[p]: SerializersTable of p, scripting type -> Serializer
    down,       \* down[c]: reliable-ordered messages server -> c in flight
    up,         \* up[c]: reliable-ordered messages c -> server in flight
    unrel,      \* unreliable messages in flight, [from, to, m]
    ops,        \* entry-point calls made so far
    outbox,     \* the messages the last step handed to the transport
    hist        \* history of the session used to state the properties

vars == <<world, newCount, reg, spawnQ, despawnQ, remap, published, cstate,
          newClients, frame, updated, serial, down, up, unrel, ops, outbox,
          hist>>

\* ----------------------------------------------------------------- helpers

Max(a, b) == IF a >= b THEN a ELSE b

RECURSIVE SetToSeq(_)
\* The elements of a finite set of integers in ascending order.
SetToSeq(S) ==
    IF S = {} THEN <<>>
    ELSE LET m == CHOOSE x \in S : \A y \in S : x <= y
         IN <<m>> \o SetToSeq(S \ {m})

Range(s) == {s[i] : i \in 1..Len(s)}

\* The orders in which a hashed container may hold the ids S: the container
\* is walked bucket by bucket, and the bucket of an id is its hash.
Orders(S) ==
    {o \in [1..Cardinality(S) -> S] : \A i, j \in 1..Cardinality(S) :
                                         o[i] = o[j] => i = j}

RECURSIVE InOrder(_, _)
\* The ids S as a walk over the container meets them: in the order ord for
\* the ids it names, the others after them.
InOrder(ord, S) ==
    IF ord = <<>> THEN SetToSeq(S)
    ELSE (IF Head(ord) \in S THEN <<Head(ord)>> ELSE <<>>)
         \o InOrder(Tail(ord), S \ {Head(ord)})

IsClient(p) == p # Server
Connected == {c \in Clients : cstate[c] = "connected"}
\* NetworkManager::State != Offline
Online(p) == IF p = Server THEN TRUE ELSE cstate[p] = "connected"

\* ScriptingObjectReference::Get(): the object, or null once it was destroyed.
\* An object that DeleteObject handed to the removal service is there until
\* the service destroys it.
Alive(p, id) == id \in DOMAIN world[p]

\* ------------------------------------------------------------ object world

\* An object of the scripting system.  kind is "Actor", "Script" or "Object"
\* (not a scene object); sparent is the scene parent (GetParent), prefab and
\* pobj are GetPrefabID and GetPrefabObjectID, val is its replicated state.
\* at places the object in its parent's Children or Scripts: the objects of
\* one list stand by at, those of equal at by id.  dying: DeleteObject was
\* called, the removal service will destroy the object.
Obj(type, kind, sparent, prefab, pobj, val) ==
    [type |-> type, kind |-> kind, sparent |-> sparent, prefab |-> prefab,
     pobj |-> pobj, val |-> val, at |-> 0, dying |-> FALSE]

IsSceneObject(w, id) == id \in DOMAIN w /\ w[id].kind \in {"Actor", "Script"}
IsActor(w, id) == id \in DOMAIN w /\ w[id].kind = "Actor"

\* sceneObject->GetParent()->GetID(), Guid::Empty without a parent
SceneParent(w, id) == IF IsSceneObject(w, id) THEN w[id].sparent ELSE EmptyGuid

RECURSIVE IsParentOf(_, _, _)
IsParentOf(w, obj, parent) ==
    IF ~IsSceneObject(w, obj) THEN FALSE
    ELSE w[obj].sparent = parent
         \/ (w[obj].sparent # EmptyGuid /\ IsParentOf(w, w[obj].sparent, parent))

\* The destruction of an actor takes its scripts and children with it.
Subtree(w, id) == {id} \cup {o \in DOMAIN w : IsParentOf(w, o, id)}
Without(w, ids) == [o \in DOMAIN w \ ids |-> w[o]]

\* obj->DeleteObject(): the object is handed to the removal service, which
\* destroys it later; until then it is there as before.
DeleteObject(w, obj) == [w EXCEPT ![obj].dying = TRUE]

\* DeleteNetworkObject(obj): a script with a parent actor takes the actor
\* with it.
DeleteNetworkObject(w, obj) ==
    IF obj \notin DOMAIN w THEN w
    ELSE IF w[obj].kind = "Script" /\ w[obj].sparent \in DOMAIN w
         THEN DeleteObject(w, w[obj].sparent)
         ELSE DeleteObject(w, obj)

\* The removal service destroys the objects handed to it, each actor with
\* its scripts and children.
ObjectsRemoved(w) ==
    Without(w, UNION {Subtree(w, o) : o \in {x \in DOMAIN w : w[x].dying}})

\* The objects of S in the order of the list that holds them.
RECURSIVE ListOrder(_, _)
ListOrder(w, S) ==
    IF S = {} THEN <<>>
    ELSE LET f == CHOOSE o \in S : \A x \in S :
                      w[o].at < w[x].at \/ (w[o].at = w[x].at /\ o <= x)
         IN <<f>> \o ListOrder(w, S \ {f})

\* actor->Children and actor->Scripts
Children(w, a) ==
    ListOrder(w, {o \in DOMAIN w : w[o].kind = "Actor" /\ w[o].sparent = a})
Scripts(w, a) ==
    ListOrder(w, {o \in DOMAIN w : w[o].kind = "Script" /\ w[o].sparent = a})

\* ---------------------------------------------------------------- messages

Msg(kind, id, parent, owner, type, frm, data, prefab, pobj) ==
    [kind |-> kind, id |-> id, parent |-> parent, owner |-> owner,
     type |-> type, frame |-> frm, data |-> data, prefab |-> prefab,
     pobj |-> pobj]

NoMsg == Msg("none", EmptyGuid, EmptyGuid, ServerClientId, NoType, 0, 0,
             EmptyGuid, EmptyGuid)

\* One call of EndSendMessage: the message, the peers it is addressed to,
\* the channel, and the part of the operation that sent it.
Send(m, to, chan, phase) == [m |-> m, to |-> to, chan |-> chan, phase |-> phase]

\* ------------------------------------------------------------- collections

\* A registry record (NetworkReplicatedObject).
Rec(id, parent, owner, lof, role, spawned, targets) ==
    [id |-> id, parent |-> parent, owner |-> owner, lof |-> lof, role |-> role,
     spawned |-> spawned, targets |-> targets, warn |-> FALSE]

\* Objects.Find(id) != End()
HasRec(R, id) == \E r \in R : r.id = id
Find(R, id) == CHOOSE r \in R : r.id = id
\* it->Item.field = value through the reference the code holds
Put(R, id, new) == {IF r.id = id THEN new ELSE r : r \in R}

\* HashSet::Add with the record's hash (GetHash: ObjectId) and equality:
\* an item equal to a stored one is not added again.
ObjectsAdd(R, item) == IF \E r \in R : r.id = item.id THEN R ELSE R \cup {item}

ObjectsRemove(R, id) == {r \in R : r.id # id}

\* Dictionary::TryGet(key, key): the mapped id, the key itself on a miss.
TryGet(rm, id) == IF id \in DOMAIN rm THEN rm[id] ELSE id

\* Dictionary::KeyOf(value, &value): the first key mapped to value that a
\* walk over the table meets, value on a miss.  kord is the order in which
\* the table holds the keys it names, the other keys follow by their ids.
KeyOf(rm, kord, id) ==
    LET keys == {k \in DOMAIN rm : rm[k] = id}
    IN IF keys = {} THEN id ELSE Head(InOrder(kord, keys))

\* The keys of the table that share their value with another key: the keys
\* whose place in the table decides what KeyOf finds.
SharedKeys(rm) == {k \in DOMAIN rm : \E j \in DOMAIN rm : j # k /\ rm[j] = rm[k]}

\* What an invalid operation of a handler does in the build at hand: "fault"
\* ends the process there (an assertion, a read through a null pointer);
\* "old" and "new" are builds without the assertion of Dictionary::Add.
Outcomes == {"old", "new", "fault"}

\* Dictionary::Add(key, value).  The key is expected to be new; adding a key
\* that is present trips the container's assertion (the caller ends the
\* process when dup is "fault") or, without assertions, leaves the old or
\* the new value to be found: dup picks the outcome.
DictAdd(rm, k, v, dup) ==
    IF k \in DOMAIN rm
    THEN IF dup = "new" THEN [rm EXCEPT ![k] = v] ELSE rm
    ELSE [j \in DOMAIN rm \cup {k} |-> IF j = k THEN v ELSE rm[j]]

\* ----------------------------------------------------------------- targets

\* BuildCachedTargets(clients): the connected ones
BuildCachedTargets1(clients) == clients \cap Connected

\* Targets built without leaving the excluded client out.
BuildCachedTargetsAnyone(clients, excluded) == clients \cap Connected

\* BuildCachedTargets(clients, excludedClient)
BuildCachedTargets2(clients, excluded) == (clients \cap Connected) \ excluded

\* Targets built without looking at the list of client ids.
BuildCachedTargetsAll(clients, clientIds, excludedClientId) ==
    {c \in clients \cap Connected : c # excludedClientId}

\* BuildCachedTargets(clients, clientIds, excludedClientId)
BuildCachedTargets3(clients, clientIds, excludedClientId) ==
    {c \in clients \cap Connected :
        c # excludedClientId /\ (clientIds = {} \/ c \in clientIds)}

\* BuildCachedTargets(item)
BuildCachedTargetsItem(item) ==
    BuildCachedTargets3(Clients, item.targets, item.owner)

\* ------------------------------------------------------- a peer's own state

\* The replicator state of one peer while an operation runs on it: registry,
\* queues, remap table, pending new clients, whether the remap is published,
\* the messages sent so far, whether a present remap key was added again, and
\* the object for which a DespawnObject call changed nothing, and the message
\* a handler dropped because of its sender, and the records of a client that
\* disconnects, and whether the replicator was shut down, and whether the
\* operation faulted, and the object a DespawnObject call despawned, and the
\* serializers table, and the frame number and the number of frames ended,
\* and the order in which Objects holds the records (ord) and the remap table
\* its keys (kord) during the operation, and whether the step is a run of
\* the removal service (flush).
Local(p) ==
    [reg |-> reg[p], sq |-> spawnQ[p], dq |-> despawnQ[p], remap |-> remap[p],
     nc |-> IF p = Server THEN newClients ELSE {}, pub |-> published[p],
     out |-> <<>>, readd |-> FALSE, ign |-> {}, den |-> {},
     left |-> {}, clr |-> FALSE, fault |-> FALSE, desp |-> {},
     ser |-> serial[p], frame |-> frame[p], upd |-> updated[p],
     ord |-> <<>>, kord |-> <<>>, flush |-> FALSE]

SpawnItem(obj, targets) ==
    [obj |-> obj, targets |-> targets, hasOwn |-> FALSE, hier |-> FALSE,
     owner |-> ServerClientId, role |-> RoleNone]

\* SendObjectRoleMessage: the record's own id and owner; a client sends to the
\* server, the server to every connected client but the excluded one.
SendObjectRoleMessage(p, L, item, excluded, phase) ==
    LET m == Msg("Role", item.id, EmptyGuid, item.owner, NoType, 0, 0,
                 EmptyGuid, EmptyGuid)
        to == IF IsClient(p) THEN {Server}
              ELSE BuildCachedTargets2(Clients, excluded)
    IN [L EXCEPT !.out = Append(@, Send(m, to, "rel", phase))]

\* SendObjectSpawnMessage: a client rewrites both ids through the remap table
\* and sends to the server, the server sends to the targets built by the caller.
SendObjectSpawnMessage(p, L, item, targets, phase) ==
    LET w == world[p]
        oid == IF IsClient(p) THEN KeyOf(L.remap, L.kord, item.id) ELSE item.id
        pid == IF IsClient(p) THEN KeyOf(L.remap, L.kord, item.parent) ELSE item.parent
        link == IsSceneObject(w, item.id) /\ w[item.id].prefab # EmptyGuid
        m == Msg("Spawn", oid, pid, item.owner, w[item.id].type, 0, 0,
                 IF link THEN w[item.id].prefab ELSE EmptyGuid,
                 IF link THEN w[item.id].pobj ELSE EmptyGuid)
        to == IF IsClient(p) THEN {Server} ELSE targets
    IN [L EXCEPT !.out = Append(@, Send(m, to, "rel", phase))]

\* The first queued spawn of obj gets the ownership (SetObjectOwnership's
\* special case for an object that is not registered yet).
RECURSIVE MarkQueued(_, _, _, _, _)
MarkQueued(q, obj, owner, role, hier) ==
    IF q = <<>> THEN <<>>
    ELSE IF Head(q).obj = obj
         THEN <<[Head(q) EXCEPT !.hasOwn = TRUE, !.hier = hier,
                                !.owner = owner, !.role = role]>> \o Tail(q)
         ELSE <<Head(q)>> \o MarkQueued(Tail(q), obj, owner, role, hier)

\* A SetObjectOwnership that takes any role.
AnyRole(isOwner, changes, localRole) == TRUE

\* The CHECK of the branch SetObjectOwnership takes: the owner keeps the
\* object as OwnedAuthoritative only; nobody else gets that role by the call.
RoleAllowed(isOwner, changes, localRole) ==
    IF isOwner /\ ~changes THEN localRole = OwnedAuthoritative
    ELSE localRole # OwnedAuthoritative

RECURSIVE SetObjectOwnership(_, _, _, _, _, _, _)
RECURSIVE OwnershipDown(_, _, _, _, _, _)

\* NetworkReplicator::SetObjectOwnership on peer p.
SetObjectOwnership(p, L, obj, ownerClientId, localRole, hierarchical, phase) ==
    IF ~Alive(p, obj) THEN L
    ELSE IF ~HasRec(L.reg, obj)
    THEN [L EXCEPT !.sq = MarkQueued(@, obj, ownerClientId, localRole, hierarchical)]
    ELSE
      LET item == Find(L.reg, obj)
          isOwner == item.owner = p
          changes == item.owner # ownerClientId
          \* the CHECK of the branch taken; a failed CHECK returns
          check == RoleAllowed(isOwner, changes, localRole)
          new == IF isOwner /\ changes
                 THEN [item EXCEPT !.owner = ownerClientId, !.lof = 1,
                                   !.role = localRole]
                 ELSE IF ~isOwner THEN [item EXCEPT !.role = localRole]
                 ELSE item
          L1 == [L EXCEPT !.reg = Put(@, obj, new)]
          L2 == IF isOwner /\ changes
                THEN SendObjectRoleMessage(p, L1, new, {}, phase)
                ELSE L1
      IN IF ~check THEN L
         ELSE IF hierarchical
              THEN OwnershipDown(p, L2,
                       InOrder(L2.ord, {r.id : r \in {c \in L2.reg : c.parent = obj}}),
                       ownerClientId, localRole, phase)
              ELSE L2

\* A SetObjectOwnership that does not go down the hierarchy.
OwnershipStays(p, L, kids, ownerClientId, localRole, phase) == L

\* The loop over the records whose ParentId is the object's id, in the order
\* a walk over Objects meets them.
OwnershipDown(p, L, kids, ownerClientId, localRole, phase) ==
    IF kids = <<>> THEN L
    ELSE OwnershipDown(p,
             SetObjectOwnership(p, L, Head(kids), ownerClientId, localRole, TRUE, phase),
             Tail(kids), ownerClientId, localRole, phase)

\* An AddObject that registers the object without looking for its record.
AddObjectUnchecked(p, R, obj, parent) ==
    IF ~Alive(p, obj) \/ ~Online(p) THEN R
    ELSE R \cup {Rec(obj, IF parent = EmptyGuid THEN SceneParent(world[p], obj)
                            ELSE parent,
                      ServerClientId, 0,
                      IF IsClient(p) THEN Replicated ELSE OwnedAuthoritative,
                      FALSE, {})}

\* NetworkReplicator::AddObject(obj, parent); parent = Guid::Empty is nullptr.
AddObject(p, R, obj, parent) ==
    IF ~Alive(p, obj) \/ ~Online(p) THEN R
    ELSE IF HasRec(R, obj) THEN R
    ELSE LET par == IF parent = EmptyGuid THEN SceneParent(world[p], obj) ELSE parent
         IN ObjectsAdd(R, Rec(obj, par, ServerClientId, 0,
                              IF IsClient(p) THEN Replicated ELSE OwnedAuthoritative,
                              FALSE, {}))

\* NetworkReplicator::RemoveObject(obj).  The call returns when the object
\* has a record.  Without a record it goes on with the end iterator: the
\* log line reads the item behind it, which faults or yields garbage (ub
\* picks the outcome), and Objects.Remove of the end iterator removes nothing.
RemoveObject(p, L, obj, ub) ==
    IF ~Alive(p, obj) \/ ~Online(p) THEN L
    ELSE IF HasRec(L.reg, obj) THEN L
    ELSE [L EXCEPT !.fault = (ub = "fault")]

\* NetworkReplicator::SpawnObject(obj, clientIds)
SpawnObject(p, L, obj, clientIds) ==
    IF ~Alive(p, obj) \/ ~Online(p) THEN L
    ELSE IF HasRec(L.reg, obj) /\ Find(L.reg, obj).spawned THEN L
    ELSE [L EXCEPT !.sq = Append(@, SpawnItem(obj, clientIds))]

\* SpawnQueue.RemoveAt(i) of the first entry of obj: Array::RemoveAt moves
\* the last entry into the place of the removed one.
RemoveFirst(q, obj) ==
    LET at == {i \in 1..Len(q) : q[i].obj = obj}
    IN IF at = {} THEN q
       ELSE LET i == CHOOSE k \in at : \A l \in at : k <= l
            IN [j \in 1..(Len(q) - 1) |-> IF j = i THEN q[Len(q)] ELSE q[j]]

\* A DespawnObject guard that does not look at the owner.
DespawnsAnyOwner(p, L, obj) ==
    /\ Alive(p, obj) /\ Online(p)
    /\ HasRec(L.reg, obj)
    /\ Find(L.reg, obj).spawned

\* DespawnObject's guard: registered, spawned and owned by this peer.
CanDespawn(p, L, obj) ==
    /\ Alive(p, obj) /\ Online(p)
    /\ HasRec(L.reg, obj)
    /\ Find(L.reg, obj).spawned
    /\ Find(L.reg, obj).owner = p

\* ASSERT_LOW_LAYER(!DespawnQueue.Contains(id)) fails; asserts: the build has
\* the low-layer assertions.
DespawnAsserts(L, obj, asserts) == asserts /\ obj \in Range(L.dq)

\* NetworkReplicator::DespawnObject(obj): the replicator's part ...
DespawnObject(p, L, obj, asserts) ==
    IF ~CanDespawn(p, L, obj) THEN L
    ELSE IF DespawnAsserts(L, obj, asserts) THEN [L EXCEPT !.fault = TRUE]
    ELSE [L EXCEPT !.dq = Append(@, obj), !.sq = RemoveFirst(@, obj)]

\* ... and the deletion of the object itself.
DespawnObjectWorld(p, L, obj, asserts) ==
    IF ~CanDespawn(p, L, obj) \/ DespawnAsserts(L, obj, asserts) THEN world[p]
    ELSE DeleteNetworkObject(world[p], obj)

\* ------------------------------------------------------ the replication tick

\* NetworkReplicator::AddSerializer
AddSerializer(table, typeHandle, serializer) ==
    IF typeHandle = NoType THEN table
    ELSE [t \in DOMAIN table \cup {typeHandle} |->
             IF t = typeHandle THEN serializer ELSE table[t]]

\* The outcome of InvokeSerializer: the value returned, the table it leaves
\* and the callback it called with its tag, <<>> if it called none.
Invoked(failed, table, call) == [failed |-> failed, table |-> table, call |-> call]

\* The callback of a serializer for the direction asked for.
CallOf(serializer, serialize) ==
    LET idx == IF serialize THEN 1 ELSE 2
    IN <<serializer.methods[idx], serializer.tags[idx]>>

\* A lookup that knows the table's own entries only.
InvokeSerializerDirect(table, typeHandle, valid, serialize) ==
    IF typeHandle = NoType \/ ~valid \/ typeHandle \notin DOMAIN table
    THEN Invoked(TRUE, table, <<>>)
    ELSE Invoked(FALSE, table, CallOf(table[typeHandle], serialize))

\* NetworkReplicator::InvokeSerializer; valid: instance and stream are given.
RECURSIVE InvokeSerializer(_, _, _, _)
InvokeSerializer(table, typeHandle, valid, serialize) ==
    IF typeHandle = NoType \/ ~valid THEN Invoked(TRUE, table, <<>>)
    ELSE IF typeHandle \in DOMAIN table
         THEN Invoked(FALSE, table, CallOf(table[typeHandle], serialize))
    ELSE IF GetInterface(typeHandle) # NoInterface
         THEN LET serializer ==
                      Serializer("INetworkSerializable_Serialize",
                                 "INetworkSerializable_Deserialize",
                                 GetInterface(typeHandle), GetInterface(typeHandle))
              IN Invoked(FALSE, AddSerializer(table, typeHandle, serializer),
                         CallOf(serializer, serialize))
    ELSE IF GetBaseType(typeHandle) # NoType
         THEN InvokeSerializer(table, GetBaseType(typeHandle), valid, serialize)
    ELSE Invoked(TRUE, table, <<>>)

\* InvokeSerializer reports a type without serialization logic as failed.
SerializerMissing(p, type) ==
    InvokeSerializer(serial[p], type, TRUE, TRUE).failed

\* Late-join sync: one spawn message per spawned record with a live object,
\* addressed to the new clients its target list admits, in the order a walk
\* over Objects meets the records.
RECURSIVE SyncNewClients(_, _, _)
SyncNewClients(p, L, ids) ==
    IF ids = <<>> THEN L
    ELSE LET item == Find(L.reg, Head(ids))
             to == BuildCachedTargets3(L.nc, item.targets, ServerClientId)
         IN SyncNewClients(p, SendObjectSpawnMessage(p, L, item, to, "sync"), Tail(ids))

NewClientsStep(p, L) ==
    IF IsClient(p) \/ L.nc = {} THEN L
    ELSE [SyncNewClients(p, L,
              InOrder(L.ord, {r.id : r \in {x \in L.reg : Alive(p, x.id) /\ x.spawned}}))
          EXCEPT !.nc = {}]

\* The despawn queue: one message per queued id, in queue order.
RECURSIVE DespawnStep(_, _, _, _)
DespawnStep(p, L, q, targets) ==
    IF q = <<>> THEN [L EXCEPT !.dq = <<>>]
    ELSE LET oid == IF IsClient(p) THEN KeyOf(L.remap, L.kord, Head(q)) ELSE Head(q)
             m == Msg("Despawn", oid, EmptyGuid, ServerClientId, NoType, 0, 0,
                      EmptyGuid, EmptyGuid)
             to == IF IsClient(p) THEN {Server} ELSE targets
         IN DespawnStep(p, [L EXCEPT !.out = Append(@, Send(m, to, "rel", "despawn"))],
                        Tail(q), targets)

\* The first pass over the spawn queue: an entry without ownership whose
\* object is a scene descendant of an entry with hierarchical ownership
\* takes that entry's owner and role (the first such entry in queue order).
LiveOrNull(p, obj) == IF Alive(p, obj) THEN obj ELSE EmptyGuid

PropagateOwnership(p, q) ==
    [i \in 1..Len(q) |->
        LET above == {j \in 1..Len(q) :
                        /\ q[j].hasOwn /\ q[j].hier
                        /\ IsParentOf(world[p], q[i].obj, LiveOrNull(p, q[j].obj))}
        IN IF ~q[i].hasOwn /\ above # {}
           THEN LET j == CHOOSE k \in above : \A l \in above : k <= l
                IN [q[i] EXCEPT !.hasOwn = TRUE, !.role = q[j].role,
                                !.owner = q[j].owner]
           ELSE q[i]]

\* One entry of the spawn queue.  For an entry whose object was destroyed
\* the code reads the id through the null object: the process faults.  An
\* entry with targets on a client reaches MISSING_CODE (line 790), a fatal
\* error of the engine: the process ends after the entry's ownership is
\* taken and before its targets are, with nothing sent.
SpawnOne(p, L, e) ==
    IF ~Alive(p, e.obj) THEN [L EXCEPT !.fault = TRUE]
    ELSE
      LET R1 == IF HasRec(L.reg, e.obj) THEN L.reg
                ELSE AddObject(p, L.reg, e.obj, EmptyGuid)
      IN IF ~HasRec(R1, e.obj) THEN L
         ELSE
           LET item == Find(R1, e.obj)
               L1 == [L EXCEPT !.reg = R1]
           IN IF item.owner # p \/ item.role # OwnedAuthoritative THEN L1
              ELSE
                LET L2 == IF e.hasOwn
                          THEN [L1 EXCEPT !.reg = Put(@, e.obj,
                                   [item EXCEPT !.role = e.role, !.owner = e.owner])]
                          ELSE L1
                    L3 == IF e.hasOwn /\ e.hier
                          THEN SetObjectOwnership(p, L2, e.obj, e.owner, e.role,
                                                  TRUE, "spawn")
                          ELSE L2
                    L4 == IF e.targets # {}
                          THEN [L3 EXCEPT !.reg = Put(@, e.obj,
                                   [Find(L3.reg, e.obj) EXCEPT !.targets = e.targets])]
                          ELSE L3
                    it4 == Find(L4.reg, e.obj)
                    to == BuildCachedTargets3(Clients, it4.targets, ServerClientId)
                    L5 == SendObjectSpawnMessage(p, L4, it4, to, "spawn")
                IN IF e.targets # {} /\ IsClient(p)
                   THEN [L3 EXCEPT !.fault = TRUE]
                   ELSE [L5 EXCEPT !.reg = Put(@, e.obj, [it4 EXCEPT !.spawned = TRUE])]

RECURSIVE SpawnLoop(_, _, _)
SpawnLoop(p, L, q) ==
    IF L.fault THEN L
    ELSE IF q = <<>> THEN [L EXCEPT !.sq = <<>>]
    ELSE SpawnLoop(p, SpawnOne(p, L, Head(q)), Tail(q))

SpawnStep(p, L) ==
    IF L.sq = <<>> THEN L ELSE SpawnLoop(p, L, PropagateOwnership(p, L.sq))

\* Whether the state loop sends the record at all.
SkipsReplication(p, item) ==
    item.role # OwnedAuthoritative /\ (~IsClient(p) /\ item.owner # p)

\* One record of the state loop.
ReplicateOne(p, L, id) ==
    LET item == Find(L.reg, id)
        w == world[p]
    IN IF ~Alive(p, id) THEN [L EXCEPT !.reg = ObjectsRemove(@, id)]
       ELSE IF SkipsReplication(p, item) THEN L
       ELSE IF InvokeSerializer(L.ser, w[id].type, TRUE, TRUE).failed
            THEN [L EXCEPT !.reg = Put(@, id, [item EXCEPT !.warn = TRUE])]
       ELSE LET oid == IF IsClient(p) THEN KeyOf(L.remap, L.kord, item.id) ELSE item.id
                pid == IF IsClient(p) THEN KeyOf(L.remap, L.kord, item.parent) ELSE item.parent
                m == Msg("Replicate", oid, pid, ServerClientId, w[id].type,
                         L.frame, w[id].val, EmptyGuid, EmptyGuid)
                to == IF IsClient(p) THEN {Server} ELSE BuildCachedTargetsItem(item)
            IN [L EXCEPT !.out = Append(@, Send(m, to, "unrel", "state")),
                         !.ser = InvokeSerializer(@, w[id].type, TRUE, TRUE).table]

RECURSIVE ReplicateLoop(_, _, _)
ReplicateLoop(p, L, ids) ==
    IF ids = <<>> THEN L
    ELSE ReplicateLoop(p, ReplicateOne(p, L, Head(ids)), Tail(ids))

\* NetworkInternal::NetworkReplicatorPreUpdate
NetworkReplicatorPreUpdate(L) == [L EXCEPT !.pub = TRUE]

\* A frame of the network manager advances Frame, calls PreUpdate, hands the
\* events that arrived to the handlers and calls Update.  A frame of p is
\* under way while Update has not ended it.
InFrame(p) == frame[p] > updated[p]

\* The peer's state with a frame under way: the one that is, or a new one.
FrameLocal(p) ==
    IF InFrame(p) THEN Local(p)
    ELSE NetworkReplicatorPreUpdate([Local(p) EXCEPT !.frame = @ + 1])

\* A tick that drains the spawn queue before the despawn queue.
UpdateSpawnsFirst(p, L) ==
    IF L.reg = {} THEN L
    ELSE
      LET L1 == NewClientsStep(p, L)
          targets == BuildCachedTargets1(Clients)
      IN IF ~IsClient(p) /\ targets = {} THEN [L1 EXCEPT !.pub = FALSE]
         ELSE
           LET L2 == SpawnStep(p, L1)
               L3 == IF L2.fault THEN L2
                     ELSE IF L2.dq # <<>> THEN DespawnStep(p, L2, L2.dq, targets)
                     ELSE L2
               L4 == ReplicateLoop(p, L3, InOrder(L3.ord, {r.id : r \in L3.reg}))
           IN IF L3.fault THEN L3 ELSE [L4 EXCEPT !.pub = FALSE]

\* The loop over Objects that sends the state of the records (lines 801-870)
\* and the end of the update; nothing of it runs after a fault.
StateStep(p, L) ==
    IF L.fault THEN L
    ELSE [ReplicateLoop(p, L, InOrder(L.ord, {r.id : r \in L.reg}))
             EXCEPT !.pub = FALSE]

\* The update past the late-join step: without a connected client the
\* server returns; else the despawn queue is drained, then the spawn queue,
\* then the state of the records is sent.
DrainStep(p, L, targets) ==
    IF ~IsClient(p) /\ targets = {} THEN [L EXCEPT !.pub = FALSE]
    ELSE StateStep(p, SpawnStep(p, IF L.dq # <<>>
                                   THEN DespawnStep(p, L, L.dq, targets)
                                   ELSE L))

\* NetworkInternal::NetworkReplicatorUpdate.  The loops over Objects meet the
\* records in the order L.ord; a fault in the spawn queue ends the process
\* with the messages sent so far.
NetworkReplicatorUpdate(p, L) ==
    IF L.reg = {} THEN L
    ELSE DrainStep(p, NewClientsStep(p, L), BuildCachedTargets1(Clients))

\* ---------------------------------------------------------- object lookup

\* ResolveObject(objectId): the id of the record found, Guid::Empty if none.
ResolveObject(L, objectId) ==
    IF HasRec(L.reg, objectId) THEN objectId
    ELSE IF HasRec(L.reg, TryGet(L.remap, objectId)) THEN TryGet(L.remap, objectId)
    ELSE EmptyGuid

\* The records the lookup by parent and type may return for a message.
Candidates(p, L, parentId, typeName) ==
    IF typeName \notin Types THEN {}
    ELSE {e.id : e \in {x \in L.reg :
                    /\ x.lof = 0
                    /\ x.parent = TryGet(L.remap, parentId)
                    /\ Alive(p, x.id)
                    /\ world[p][x.id].type = typeName}}

\* A lookup that knows ids only: no search by parent and type.
ResolveByIdOnly(p, L, objectId, parentId, typeName, pick, dup) ==
    [L |-> L, id |-> ResolveObject(L, objectId)]

\* ResolveObject(objectId, parentId, objectTypeName): the record found and the
\* peer's state, whose remap table gains objectId -> found id when the record
\* was found by parent and type.  pick is the record the loop over Objects
\* meets first, dup the outcome of adding a key that is present: the process
\* ends there when it is "fault".
ResolveObject3(p, L, objectId, parentId, typeName, pick, dup) ==
    LET direct == ResolveObject(L, objectId)
        cands == Candidates(p, L, parentId, typeName)
    IN IF direct # EmptyGuid THEN [L |-> L, id |-> direct]
       ELSE IF pick \in cands
            THEN IF objectId \in DOMAIN L.remap /\ dup = "fault"
                 THEN [L |-> [L EXCEPT !.fault = TRUE], id |-> EmptyGuid]
                 ELSE [L |-> [L EXCEPT !.remap = DictAdd(@, objectId, pick, dup),
                                       !.readd = @ \/ objectId \in DOMAIN L.remap],
                       id |-> pick]
            ELSE [L |-> L, id |-> EmptyGuid]

\* What pick may be for a message: any candidate, Guid::Empty without one.
Picks(p, L, m) ==
    IF ResolveObject(L, m.id) = EmptyGuid /\ Candidates(p, L, m.parent, m.type) # {}
    THEN Candidates(p, L, m.parent, m.type)
    ELSE {EmptyGuid}

\* Scripting::TryFindObject<Actor>(id): an invalid id finds nothing; any
\* other id goes through the remap table while the table is published.
TryFindActor(w, L, id) ==
    LET key == IF L.pub THEN TryGet(L.remap, id) ELSE id
    IN IF id # EmptyGuid /\ IsActor(w, key) THEN key ELSE EmptyGuid

\* ---------------------------------------------------------------- handlers

\* The result of a handler: the peer's state, its world, its count of created
\* objects, and whether the message was applied.
Result(L, w, n, acc) == [L |-> L, w |-> w, n |-> n, acc |-> acc, stale |-> FALSE]

\* A replicate handler that applies whatever arrives.
NoFrameCheck(item, m) == FALSE

\* A frame check that only catches the frame applied last.
SameFrameCheck(item, m) == item.lof = m.frame

\* The frame check of the replicate handler: the message is not newer than
\* the last one applied to the record.
IsStale(item, m) == item.lof >= m.frame

\* A sender check that lets every sender pass.
AnySender(p, item, from) == TRUE

\* The sender check: the server knows the sending client, a client does not.
FromOwner(p, item, from) == IsClient(p) \/ item.owner = from

\* The handler returns at the sender check.
Denied(drop, m, from, id) ==
    [drop EXCEPT !.L.den = {<<m.kind, from, id>>}]

\* NetworkInternal::OnNetworkMessageObjectReplicate
OnNetworkMessageObjectReplicate(p, from, m, pick, dup) ==
    LET L0 == FrameLocal(p)
        res == ResolveObject3(p, L0, m.id, m.parent, m.type, pick, dup)
        L == res.L
        w == world[p]
        drop == Result(L, w, newCount[p], FALSE)
    IN IF res.id = EmptyGuid THEN drop
       ELSE LET item == Find(L.reg, res.id)
            IN IF ~Alive(p, res.id) THEN drop
               ELSE IF ~FromOwner(p, item, from) THEN Denied(drop, m, from, res.id)
               ELSE IF item.role = OwnedAuthoritative THEN drop
               ELSE IF IsStale(item, m) THEN [drop EXCEPT !.stale = TRUE]
               ELSE
                 LET inv == InvokeSerializer(L.ser, w[res.id].type, TRUE, FALSE)
                     failed == inv.failed
                     item1 == [item EXCEPT !.lof = m.frame,
                                           !.warn = @ \/ failed]
                     w1 == IF failed THEN w
                           ELSE [w EXCEPT ![res.id].val = m.data]
                 IN Result([L EXCEPT !.reg = Put(@, res.id, item1),
                                     !.ser = inv.table], w1,
                           newCount[p], TRUE)

\* Objects.Remove(obj) with the object's pointer: the pointer is hashed as a
\* pointer, the records are stored under the hash of their ids, so the walk
\* from the pointer's bucket meets the record only when the two hashes lead
\* to one chain of buckets (found); otherwise nothing is removed.
ObjectsRemoveByPointer(R, id, found) == IF found THEN ObjectsRemove(R, id) ELSE R

\* NetworkInternal::OnNetworkMessageObjectDespawn
OnNetworkMessageObjectDespawn(p, from, m, found) ==
    LET L == FrameLocal(p)
        id == ResolveObject(L, m.id)
        w == world[p]
        drop == Result(L, w, newCount[p], FALSE)
    IN IF id = EmptyGuid THEN drop
       ELSE LET item == Find(L.reg, id)
            IN IF ~Alive(p, id) \/ ~item.spawned THEN drop
               ELSE IF ~FromOwner(p, item, from) THEN Denied(drop, m, from, id)
               ELSE Result([L EXCEPT !.reg = ObjectsRemoveByPointer(@, id, found)],
                           DeleteNetworkObject(w, id), newCount[p], TRUE)

\* NetworkInternal::OnNetworkMessageObjectRole
OnNetworkMessageObjectRole(p, from, m) ==
    LET L == FrameLocal(p)
        id == ResolveObject(L, m.id)
        w == world[p]
        drop == Result(L, w, newCount[p], FALSE)
    IN IF id = EmptyGuid THEN drop
       ELSE LET item == Find(L.reg, id)
            IN IF ~Alive(p, id) THEN drop
               ELSE IF ~FromOwner(p, item, from) THEN Denied(drop, m, from, id)
               ELSE
                 LET item1 == IF m.owner = p
                              THEN [item EXCEPT !.owner = m.owner, !.lof = 0,
                                                !.role = OwnedAuthoritative]
                              ELSE IF item.role = OwnedAuthoritative
                              THEN [item EXCEPT !.owner = m.owner, !.lof = 1,
                                                !.role = Replicated]
                              ELSE [item EXCEPT !.owner = m.owner, !.lof = 1]
                     L1 == [L EXCEPT !.reg = Put(@, id, item1)]
                     L2 == IF ~IsClient(p)
                           THEN SendObjectRoleMessage(p, L1, item1, {from}, "relay")
                           ELSE L1
                 IN Result(L2, w, newCount[p], TRUE)

\* ------------------------------------------------------------------ prefabs

\* The prefab assets of the game: per prefab id its objects, the root first,
\* each with its prefab object id, type, kind and parent prefab object id.
Prefabs ==
    [k \in {90} |->
        <<[pobj |-> 91, type |-> "TA", kind |-> "Actor", parent |-> EmptyGuid],
          [pobj |-> 92, type |-> "TB", kind |-> "Script", parent |-> 91]>>]

\* The kind of object ScriptingObject::NewObject makes of a type.
KindOfType(type) == IF type = "TB" THEN "Script" ELSE "Actor"

\* The id of the k-th object peer p creates.
FreshId(p, k) == 100 * (p + 1) + k

\* Objects a spawn message may make the peer create.
NeedsNew(m) == IF m.prefab \in DOMAIN Prefabs THEN Len(Prefabs[m.prefab]) ELSE 1

RECURSIVE FindPrefabObject(_, _, _)
RECURSIVE FindInChildren(_, _, _)
\* FindPrefabObject(a, prefabObjectId): the actor itself, else the first of
\* its scripts, else the first find below its children, taken in the order
\* of Scripts and Children; Guid::Empty if there is none.
FindPrefabObject(w, a, prefabObjectId) ==
    IF a \notin DOMAIN w THEN EmptyGuid
    ELSE IF w[a].pobj = prefabObjectId THEN a
    ELSE LET hits == ListOrder(w, {o \in DOMAIN w :
                                      /\ w[o].kind = "Script" /\ w[o].sparent = a
                                      /\ w[o].pobj = prefabObjectId})
         IN IF hits # <<>> THEN Head(hits)
            ELSE FindInChildren(w, Children(w, a), prefabObjectId)

\* The loop of FindPrefabObject over the children: the first find.
FindInChildren(w, cs, prefabObjectId) ==
    IF cs = <<>> THEN EmptyGuid
    ELSE IF FindPrefabObject(w, Head(cs), prefabObjectId) # EmptyGuid
         THEN FindPrefabObject(w, Head(cs), prefabObjectId)
         ELSE FindInChildren(w, Tail(cs), prefabObjectId)

\* PrefabManager::SpawnPrefab(prefab, nullptr, nullptr): a new instance, its
\* root without a parent.  n objects were created by the peer before.
SpawnPrefab(p, w, n, prefabId) ==
    LET d == Prefabs[prefabId]
        idOf(pobj) == FreshId(p, n + (CHOOSE i \in 1..Len(d) : d[i].pobj = pobj))
        new == {FreshId(p, n + i) : i \in 1..Len(d)}
    IN [o \in DOMAIN w \cup new |->
          IF o \in DOMAIN w THEN w[o]
          ELSE LET e == d[o - FreshId(p, n)]
               IN Obj(e.type, e.kind,
                      IF e.parent = EmptyGuid THEN EmptyGuid ELSE idOf(e.parent),
                      prefabId, e.pobj, 0)]

\* The child actors of parentActor that are registered instances of the
\* prefab: the children at which the loop over parentActor->Children looks
\* for the prefab object.
InstanceChildren(L, w, parentActor, m) ==
    {c \in DOMAIN w :
        /\ w[c].kind = "Actor" /\ w[c].sparent = parentActor
        /\ w[c].prefab = m.prefab
        /\ HasRec(L.reg, c)}

\* The children among them at which the loop ends: the prefab object is not
\* registered (reuse), or the instance has no such object and the code asks
\* the null object for its id (fault).
EndingChildren(L, w, parentActor, m) ==
    {c \in InstanceChildren(L, w, parentActor, m) :
        ~HasRec(L.reg, FindPrefabObject(w, c, m.pobj))}

\* sceneObject->SetParent(actor): the object leaves its parent's list and is
\* added at the end of the new parent's.  An object is never put below
\* itself, and stays where it is below the parent it has.
SetParent(w, obj, actor) ==
    IF actor \in Subtree(w, obj) \/ w[obj].sparent = actor THEN w
    ELSE LET list == {o \in DOMAIN w : w[o].kind = w[obj].kind
                                       /\ w[o].sparent = actor}
             last == IF list = {} THEN 0
                     ELSE CHOOSE n \in {w[o].at : o \in list} :
                             \A o \in list : w[o].at <= n
         IN [w EXCEPT ![obj].sparent = actor, ![obj].at = last + 1]

\* The branch of the spawn handler that recreates the object locally.  The
\* process faults where the code reads through a null pointer: the prefab
\* object of a child instance that has none, the object of a parent record
\* whose object was destroyed (in the log line before the record is added);
\* and, when dup is "fault", where the remap key is present.
RecreateObject(p, L, m, dup) ==
    LET w == world[p]
        n == newCount[p]
        parent == ResolveObject(L, m.parent)
        parentRecActor == IF parent # EmptyGuid /\ IsActor(w, parent)
                          THEN parent ELSE EmptyGuid
        byParent == parentRecActor # EmptyGuid /\ w[parentRecActor].prefab = m.prefab
        byLookup == TryFindActor(w, L, m.parent)
        ending == IF m.prefab = EmptyGuid \/ byParent \/ byLookup = EmptyGuid THEN {}
                  ELSE EndingChildren(L, w, byLookup, m)
        \* the child at which the loop over Children ends
        first == IF ending = {} THEN EmptyGuid
                 ELSE Head(ListOrder(w, ending))
        childFault == first # EmptyGuid
                      /\ FindPrefabObject(w, first, m.pobj) = EmptyGuid
        \* the prefab instance taken without spawning, Guid::Empty if none
        instance0 ==
            IF byParent THEN parentRecActor
            ELSE IF first # EmptyGuid /\ ~childFault THEN first
            ELSE EmptyGuid
        loaded == m.prefab \in DOMAIN Prefabs
        w1 == IF m.prefab = EmptyGuid
              THEN [o \in DOMAIN w \cup {FreshId(p, n + 1)} |->
                      IF o \in DOMAIN w THEN w[o]
                      ELSE Obj(m.type, KindOfType(m.type), EmptyGuid, EmptyGuid,
                               EmptyGuid, 0)]
              ELSE IF instance0 # EmptyGuid \/ ~loaded THEN w
              ELSE SpawnPrefab(p, w, n, m.prefab)
        n1 == IF m.prefab = EmptyGuid THEN n + 1
              ELSE IF instance0 # EmptyGuid \/ ~loaded THEN n
              ELSE n + Len(Prefabs[m.prefab])
        instance == IF instance0 # EmptyGuid THEN instance0 ELSE FreshId(p, n + 1)
        obj == IF m.prefab = EmptyGuid THEN FreshId(p, n + 1)
               ELSE FindPrefabObject(w1, instance, m.pobj)
    IN IF childFault THEN Result([L EXCEPT !.fault = TRUE], w, n, FALSE)
       ELSE IF m.prefab = EmptyGuid /\ m.type \notin Types
       THEN Result(L, w, n, FALSE)
       ELSE IF m.prefab # EmptyGuid /\ instance0 = EmptyGuid /\ ~loaded
       THEN Result(L, w, n, FALSE)
       ELSE IF obj = EmptyGuid
       THEN Result(L, Without(w1, Subtree(w1, instance)), n1, FALSE)
       ELSE IF parent # EmptyGuid /\ parent \notin DOMAIN w
       THEN Result([L EXCEPT !.fault = TRUE], w1, n1, FALSE)
       ELSE
         LET item == Rec(obj, parent, m.owner, 0,
                         IF m.owner = p THEN OwnedAuthoritative ELSE Replicated,
                         TRUE, {})
         IN
         IF m.id \in DOMAIN L.remap /\ dup = "fault"
         THEN Result([L EXCEPT !.reg = ObjectsAdd(@, item), !.fault = TRUE],
                     w1, n1, FALSE)
         ELSE
         LET L1 == [L EXCEPT !.reg = ObjectsAdd(@, item),
                             !.remap = DictAdd(@, m.id, obj, dup),
                             !.readd = @ \/ m.id \in DOMAIN L.remap]
             \* the lookup of the parent id once the remap entry is added
             found == TryFindActor(w1, L1, m.parent)
             w2 == IF ~IsSceneObject(w1, obj) THEN w1
                   ELSE IF parentRecActor # EmptyGuid
                        THEN SetParent(w1, obj, parentRecActor)
                   ELSE IF found # EmptyGuid THEN SetParent(w1, obj, found)
                   ELSE w1
         IN Result(L1, w2, n1, TRUE)

\* NetworkInternal::OnNetworkMessageObjectSpawn
OnNetworkMessageObjectSpawn(p, from, m, pick, dup) ==
    LET res == ResolveObject3(p, FrameLocal(p), m.id, m.parent, m.type, pick, dup)
        L == res.L
    IN IF L.fault THEN Result(L, world[p], newCount[p], FALSE)
       ELSE IF res.id # EmptyGuid
       THEN LET item == Find(L.reg, res.id)
                item1 == IF IsClient(p)
                         THEN [item EXCEPT !.spawned = TRUE, !.owner = m.owner,
                                  !.role = IF @ = OwnedAuthoritative
                                           THEN Replicated ELSE @]
                         ELSE [item EXCEPT !.spawned = TRUE]
            IN Result([L EXCEPT !.reg = Put(@, res.id, item1)], world[p],
                      newCount[p], TRUE)
       ELSE RecreateObject(p, L, m, dup)

\* ---------------------------------------------------------------- transport

\* The messages of out that travel reliably between the server and client c,
\* in the order they were sent.
RECURSIVE ReliableTo(_, _)
ReliableTo(out, t) ==
    IF out = <<>> THEN <<>>
    ELSE (IF Head(out).chan = "rel" /\ t \in Head(out).to
          THEN <<Head(out).m>> ELSE <<>>) \o ReliableTo(Tail(out), t)

\* The unreliable messages of out, one per addressee.
UnreliableOf(p, out) ==
    UNION {{[from |-> p, to |-> t, m |-> out[i].m] : t \in out[i].to} :
              i \in {j \in 1..Len(out) : out[j].chan = "unrel"}}

\* What the unreliable channel may keep of the messages sent: any part that
\* fits the room left.
Keeps(p, out) ==
    {K \in SUBSET UnreliableOf(p, out) :
        Cardinality(unrel \cup K) <= MaxUnrel}

\* ------------------------------------------------------------------ history

\* hist.readd: the peers that added a remap key that was present;
\* hist.announced: <<id, c>> once the server sent c a spawn message for id;
\* hist.acc: <<p, id, f, g>>: f is the frame left by the last accepted
\*   replicate message of record id of p since its ownership last changed
\*   hands, g the frame left by the accepted one before it (0 if none);
\* hist.accAll: the same, since the record exists;
\* hist.stale: <<p, id, frame>> of the replicate messages dropped as stale;
\* hist.handover: <<k, X>> once the owner of the spawned object the server
\*   knows as k called SetObjectOwnership to hand it to X (the last such call);
\* hist.ignored: <<p, obj, why>> once a DespawnObject(obj) call on p changed
\*   nothing; why tells what p's registry held for obj when it was called;
\* hist.denied: <<kind, c, id>> once the server dropped a message of that
\*   kind from client c for its record id because c does not own it;
\* hist.left: the ids of the server's records that a client owned when it
\*   disconnected;
\* hist.cleared: the peers whose replicator was shut down;
\* hist.fault: the peers whose process faulted on an invalid read;
\* hist.despawned: <<k, p, H>> once peer p despawned the object the server
\*   knows as k by DespawnObject, H being the peers that held a record of
\*   it when p called;
\* hist.flushed: the peers whose removal service has destroyed objects
\*   since the peer last ended a frame;
\* hist.serializerCall: the call of the serializer registry the last step
\*   made, if it made one, with the peer it was made on: AddSerializer with
\*   its type and serializer, or
\*   InvokeSerializer with its arguments, the value it returned and the
\*   callback it called with its tag.
HistInit ==
    [readd |-> {}, announced |-> {}, acc |-> {}, accAll |-> {}, stale |-> {},
     handover |-> {}, ignored |-> {}, denied |-> {},
     left |-> {}, cleared |-> {}, fault |-> {}, despawned |-> {},
     serializerCall |-> {}, flushed |-> {}]

\* The id under which the server knows the object that peer p knows as id.
ServerIdOf(p, id) == IF IsClient(p) THEN KeyOf(remap[p], <<>>, id) ELSE id

\* The peers that hold a record of the object the server knows as k.
HoldersOf(k) == {q \in Peers : \E r \in reg[q] : ServerIdOf(q, r.id) = k}

DropAcc(A, p, ids) == {x \in A : ~(x[1] = p /\ x[2] \in ids)}
HasAcc(A, p, id) == \E x \in A : x[1] = p /\ x[2] = id
AccOf(A, p, id) == (CHOOSE x \in A : x[1] = p /\ x[2] = id)[3]
SetAcc(A, p, id, f) ==
    DropAcc(A, p, {id}) \cup
    {<<p, id, f, IF HasAcc(A, p, id) THEN AccOf(A, p, id) ELSE 0>>}

RoleIdsSent(out) == {out[i].m.id : i \in {j \in 1..Len(out) : out[j].m.kind = "Role"}}

\* The hand-overs of spawned objects that SetObjectOwnership made in the step.
Handovers(p, L) ==
    {<<KeyOf(L.remap, L.kord, L.out[i].m.id), L.out[i].m.owner>> :
        i \in {j \in 1..Len(L.out) :
                  /\ L.out[j].m.kind = "Role" /\ L.out[j].phase = "api"
                  /\ Find(L.reg, L.out[j].m.id).spawned}}

\* accepted = <<id, frame>> of a replicate message applied in the step, <<>>
\* otherwise; handed = ids whose ownership the step handed over.
HistAfter(p, L, accepted, handed, stale) ==
    LET gone == {r.id : r \in reg[p]} \ {r.id : r \in L.reg}
        reset == handed \cup RoleIdsSent(L.out)
        acc1 == DropAcc(hist.acc, p, gone \cup reset)
        all1 == DropAcc(hist.accAll, p, gone)
    IN [readd |-> IF L.readd THEN hist.readd \cup {p} ELSE hist.readd,
        announced |->
            IF p # Server THEN hist.announced
            ELSE hist.announced \cup
                 UNION {{<<L.out[i].m.id, c>> : c \in L.out[i].to} :
                           i \in {j \in 1..Len(L.out) : L.out[j].m.kind = "Spawn"}},
        acc |-> IF accepted = <<>> THEN acc1
                ELSE SetAcc(acc1, p, accepted[1], accepted[2]),
        accAll |-> IF accepted = <<>> THEN all1
                   ELSE SetAcc(all1, p, accepted[1], accepted[2]),
        stale |-> {x \in hist.stale : ~(x[1] = p /\ x[2] \in gone)} \cup
                  (IF stale = <<>> THEN {} ELSE {<<p, stale[1], stale[2]>>}),
        handover |->
            {h \in hist.handover : \A n \in Handovers(p, L) : n[1] # h[1]}
            \cup Handovers(p, L),
        ignored |-> hist.ignored \cup {<<p, x[1], x[2]>> : x \in L.ign},
        denied |-> hist.denied \cup L.den,
        left |-> hist.left \cup L.left,
        cleared |-> IF L.clr THEN hist.cleared \cup {p} ELSE hist.cleared,
        fault |-> IF L.fault THEN hist.fault \cup {p} ELSE hist.fault,
        despawned |-> hist.despawned \cup
            {<<ServerIdOf(p, o), p, HoldersOf(ServerIdOf(p, o))>> : o \in L.desp},
        flushed |-> IF L.flush THEN hist.flushed \cup {p}
                    ELSE IF L.upd # updated[p] THEN hist.flushed \ {p}
                    ELSE hist.flushed,
        serializerCall |-> {}]

\* ------------------------------------------------------------------ actions

\* The step's effect on peer p and on the transport.  A process that faulted
\* takes no step.
CommitAll(p, L, w, n, net, keep, accepted, handed, stale) ==
    /\ p \notin hist.fault
    /\ reg' = [reg EXCEPT ![p] = L.reg]
    /\ frame' = [frame EXCEPT ![p] = L.frame]
    /\ updated' = [updated EXCEPT ![p] = L.upd]
    /\ spawnQ' = [spawnQ EXCEPT ![p] = L.sq]
    /\ despawnQ' = [despawnQ EXCEPT ![p] = L.dq]
    /\ remap' = [remap EXCEPT ![p] = L.remap]
    /\ published' = [published EXCEPT ![p] = L.pub]
    /\ newClients' = IF p = Server THEN L.nc ELSE newClients
    /\ world' = [world EXCEPT ![p] = w]
    /\ newCount' = [newCount EXCEPT ![p] = n]
    /\ down' = IF p = Server
               THEN [c \in Clients |-> net.down[c] \o ReliableTo(L.out, c)]
               ELSE net.down
    /\ up' = IF p = Server THEN net.up
             ELSE [net.up EXCEPT ![p] = @ \o ReliableTo(L.out, Server)]
    /\ unrel' = net.unrel \cup keep
    /\ outbox' = L.out
    /\ hist' = HistAfter(p, L, accepted, handed, stale)
    /\ serial' = [serial EXCEPT ![p] = L.ser]

Commit(p, L, w, n, net, keep, accepted, handed) ==
    CommitAll(p, L, w, n, net, keep, accepted, handed, <<>>)

\* The transport as it is, and with one message taken out of it.
Net == [down |-> down, up |-> up, unrel |-> unrel]
NetPopped(p, c) ==
    IF p = Server THEN [Net EXCEPT !.up[c] = Tail(@)]
    ELSE [Net EXCEPT !.down[c] = Tail(@)]
Incoming(p, c) == IF p = Server THEN up[c] ELSE down[c]

\* Game code calls AddObject(obj) on peer p.
AddObjectCall(p, obj) ==
    /\ ops < MaxOps
    /\ Alive(p, obj)
    /\ LET L == [Local(p) EXCEPT !.reg = AddObject(p, reg[p], obj, EmptyGuid)]
       IN Commit(p, L, world[p], newCount[p], Net, {}, <<>>, {})
    /\ ops' = ops + 1
    /\ UNCHANGED cstate

\* Game code calls RemoveObject(obj) on peer p.
RemoveObjectCall(p, obj, ub) ==
    /\ ops < MaxOps
    /\ Alive(p, obj)
    /\ HasRec(reg[p], obj) => ub = "read"
    /\ Commit(p, RemoveObject(p, Local(p), obj, ub), world[p], newCount[p],
              Net, {}, <<>>, {})
    /\ ops' = ops + 1
    /\ UNCHANGED cstate

\* Game code calls SpawnObject(obj, clientIds) on peer p.
SpawnObjectCall(p, obj, clientIds) ==
    /\ ops < MaxOps
    /\ Alive(p, obj)
    /\ Commit(p, SpawnObject(p, Local(p), obj, clientIds), world[p], newCount[p],
              Net, {}, <<>>, {})
    /\ ops' = ops + 1
    /\ UNCHANGED cstate

\* Game code calls DespawnObject(obj) on peer p, in a build with or without
\* the low-layer assertions.
DespawnObjectCall(p, obj) ==
    /\ ops < MaxOps
    /\ Alive(p, obj)
    /\ \E asserts \in BOOLEAN :
       /\ obj \notin Range(despawnQ[p]) => asserts
       /\ LET L == DespawnObject(p, Local(p), obj, asserts)
           w == DespawnObjectWorld(p, Local(p), obj, asserts)
           same == (L = Local(p) /\ w = world[p]) \/ L.fault
           why == IF ~HasRec(reg[p], obj) THEN "unregistered"
                  ELSE IF ~Find(reg[p], obj).spawned THEN "unspawned"
                  ELSE IF Find(reg[p], obj).owner # p THEN "owner"
                  ELSE "none"
          IN Commit(p, [L EXCEPT !.ign = IF same /\ ~L.fault
                                           THEN {<<obj, why>>} ELSE {},
                                 !.desp = IF same THEN {} ELSE {obj}], w,
                    newCount[p], Net, {}, <<>>, {})
    /\ ops' = ops + 1
    /\ UNCHANGED cstate

\* The ids whose order in Objects a hierarchical SetObjectOwnership can show:
\* the records that name a registered parent.
ChildIds(p) == {r.id : r \in {x \in reg[p] : HasRec(reg[p], x.parent)}}

\* Game code calls SetObjectOwnership(obj, ownerClientId, localRole, hierarchical).
SetObjectOwnershipCall(p, obj, ownerClientId, localRole, hierarchical) ==
    /\ ops < MaxOps
    /\ Alive(p, obj)
    /\ \E ord \in Orders(IF hierarchical THEN ChildIds(p) ELSE {}) :
          Commit(p, SetObjectOwnership(p, [Local(p) EXCEPT !.ord = ord], obj,
                                       ownerClientId, localRole, hierarchical, "api"),
                 world[p], newCount[p], Net, {}, <<>>, {})
    /\ ops' = ops + 1
    /\ UNCHANGED cstate

\* Game code of peer p writes v to the replicated state of its object.
WriteObject(p, obj, v) ==
    /\ ops < MaxOps
    /\ Alive(p, obj)
    /\ world[p][obj].val # v
    /\ Commit(p, Local(p), [world[p] EXCEPT ![obj].val = v], newCount[p],
              Net, {}, <<>>, {})
    /\ ops' = ops + 1
    /\ UNCHANGED cstate

\* Game code destroys an object of peer p without telling the replicator.
DestroyObject(p, obj) ==
    /\ ops < MaxOps
    /\ Alive(p, obj)
    /\ Commit(p, Local(p), Without(world[p], Subtree(world[p], obj)), newCount[p],
              Net, {}, <<>>, {})
    /\ ops' = ops + 1
    /\ UNCHANGED cstate

\* The removal service of peer p destroys the objects that DeleteObject
\* handed to it.  It runs between two frames of the network manager.
ObjectsRemovalFlush(p) ==
    /\ ~InFrame(p)
    /\ \E o \in DOMAIN world[p] : world[p][o].dying
    /\ Commit(p, [Local(p) EXCEPT !.flush = TRUE], ObjectsRemoved(world[p]),
              newCount[p], Net, {}, <<>>, {})
    /\ UNCHANGED <<cstate, ops>>

\* The ticks run so far: the frames that NetworkReplicatorUpdate ended.
TicksDone == updated[Server] + updated[1] + updated[2]

\* The ids whose order in Objects a tick can show: the records with a live
\* object and the live objects of the spawn queue, which it registers.
WalkIds(p) ==
    {r.id : r \in {x \in reg[p] : Alive(p, x.id)}}
    \cup {o \in Range([i \in 1..Len(spawnQ[p]) |-> spawnQ[p][i].obj]) : Alive(p, o)}

\* The end of a frame of p with the state L that the update left: the frame
\* counts as updated and the messages of the update leave.
EndFrame(p, L) ==
    \E keep \in Keeps(p, L.out) :
        Commit(p, [L EXCEPT !.upd = L.frame], world[p], newCount[p], Net, keep,
               <<>>, {})

\* One network tick of peer p: NetworkReplicatorUpdate ends the frame under
\* way; without one the frame counter advances and NetworkReplicatorPreUpdate
\* runs first.  The containers hold their entries in some order.  The tick
\* that follows a run of the peer's removal service is not counted.
Tick(p) ==
    /\ Online(p)
    /\ TicksDone < MaxTicks \/ p \in hist.flushed
    /\ \E ord \in Orders(WalkIds(p)) : \E kord \in Orders(SharedKeys(remap[p])) :
          EndFrame(p, NetworkReplicatorUpdate(p,
              [FrameLocal(p) EXCEPT !.ord = ord, !.kord = kord]))
    /\ UNCHANGED <<cstate, ops>>

\* Peer p has handled the message at the head of its reliable channel with
\* client c, with the result res: the message is gone, what the handler
\* changed and sent is the peer's state.  ids are the objects whose owner an
\* applied message changed.
Handled(p, c, res, ids) ==
    /\ res.n <= MaxNew
    /\ Commit(p, res.L, res.w, res.n, NetPopped(p, c), {}, <<>>,
              IF res.acc THEN ids ELSE {})

\* The same for the despawn handler; whether Objects.Remove finds the
\* record matters only when the handler gets there.
HandledOnce(p, c, res, found) ==
    /\ res.acc \/ ~found
    /\ Handled(p, c, res, {})

\* Peer x.to has handled the replicate message x with the result res.
HandledState(x, res) ==
    CommitAll(x.to, res.L, res.w, res.n, [Net EXCEPT !.unrel = @ \ {x}], {},
              IF res.acc THEN <<ResolveObject(res.L, x.m.id), x.m.frame>>
              ELSE <<>>, {},
              IF res.stale THEN <<ResolveObject(res.L, x.m.id), x.m.frame>>
              ELSE <<>>)

\* Peer p handles the replicate message x of the unreliable channel.
ReceiveReplicate(x, pick, dup) ==
    /\ x \in unrel
    /\ Online(x.to) /\ Online(x.from)
    /\ pick \in Picks(x.to, Local(x.to), x.m)
    /\ HandledState(x, OnNetworkMessageObjectReplicate(x.to, x.from, x.m,
                                                       pick, dup))
    /\ UNCHANGED <<cstate, ops>>

\* Peer p (the server, or client c itself) handles the spawn message at the
\* head of its reliable channel with client c.
ReceiveSpawn(p, c, pick, dup) ==
    /\ cstate[c] = "connected"
    /\ Incoming(p, c) # <<>>
    /\ Head(Incoming(p, c)).kind = "Spawn"
    /\ pick \in Picks(p, Local(p), Head(Incoming(p, c)))
    /\ Handled(p, c, OnNetworkMessageObjectSpawn(p, c, Head(Incoming(p, c)),
                                                 pick, dup), {})
    /\ UNCHANGED <<cstate, ops>>

\* Peer p handles the despawn message at the head of its channel with c.
ReceiveDespawn(p, c) ==
    /\ cstate[c] = "connected"
    /\ Incoming(p, c) # <<>>
    /\ Head(Incoming(p, c)).kind = "Despawn"
    /\ \E found \in BOOLEAN :
          HandledOnce(p, c, OnNetworkMessageObjectDespawn(p, c,
                                Head(Incoming(p, c)), found), found)
    /\ UNCHANGED <<cstate, ops>>

\* Peer p handles the role message at the head of its channel with c.
ReceiveRole(p, c) ==
    /\ cstate[c] = "connected"
    /\ Incoming(p, c) # <<>>
    /\ Head(Incoming(p, c)).kind = "Role"
    /\ Handled(p, c, OnNetworkMessageObjectRole(p, c, Head(Incoming(p, c))),
               {ResolveObject(Local(p), Head(Incoming(p, c)).id)})
    /\ UNCHANGED <<cstate, ops>>

\* Client c sends the server a message of its own making: the handlers
\* take whatever a connected client sends.  One such message per channel is
\* in flight at a time.
ClientSendsRaw(c, m) ==
    /\ cstate[c] = "connected"
    /\ c \notin hist.fault
    /\ IF m.kind = "Replicate"
       THEN /\ \A x \in unrel : x.from # c
            /\ Cardinality(unrel) < MaxUnrel
            /\ unrel' = unrel \cup {[from |-> c, to |-> Server, m |-> m]}
            /\ up' = up
       ELSE /\ up[c] = <<>>
            /\ up' = [up EXCEPT ![c] = <<m>>]
            /\ unrel' = unrel
    /\ outbox' = <<>>
    /\ UNCHANGED <<world, newCount, reg, spawnQ, despawnQ, remap, published,
                   cstate, newClients, frame, updated, serial, down, ops, hist>>

\* NetworkInternal::NetworkReplicatorClientConnected on the server, called
\* for a connection event of a frame.
ClientConnected(c) ==
    /\ cstate[c] = "offline"
    /\ cstate' = [cstate EXCEPT ![c] = "connected"]
    /\ Commit(Server, [FrameLocal(Server) EXCEPT !.nc = @ \cup {c}],
              world[Server], newCount[Server], Net, {}, <<>>, {})
    /\ UNCHANGED ops

\* A disconnect loop that removes the client's spawned records and objects
\* without queueing a despawn.
RECURSIVE RemoveOwnedQuietly(_, _, _, _)
RemoveOwnedQuietly(c, L, w, ids) ==
    IF ids = <<>> THEN [L |-> L, w |-> w]
    ELSE LET item == Find(L.reg, Head(ids))
         IN IF Head(ids) \in DOMAIN w /\ item.spawned /\ item.owner = c
            THEN RemoveOwnedQuietly(c,
                     [L EXCEPT !.reg = ObjectsRemove(@, Head(ids))],
                     DeleteNetworkObject(w, Head(ids)), Tail(ids))
            ELSE RemoveOwnedQuietly(c, L, w, Tail(ids))

\* The loop of NetworkReplicatorClientDisconnected over the records: a
\* spawned record of the client with a live object is queued for despawn,
\* its object deleted and the record removed.
RECURSIVE RemoveOwnedBy(_, _, _, _)
RemoveOwnedBy(c, L, w, ids) ==
    IF ids = <<>> THEN [L |-> L, w |-> w]
    ELSE LET item == Find(L.reg, Head(ids))
         IN IF Head(ids) \in DOMAIN w /\ item.spawned /\ item.owner = c
            THEN RemoveOwnedBy(c,
                     [L EXCEPT !.dq = Append(@, Head(ids)),
                               !.reg = ObjectsRemove(@, Head(ids))],
                     DeleteNetworkObject(w, Head(ids)), Tail(ids))
            ELSE RemoveOwnedBy(c, L, w, Tail(ids))

\* The ids whose order in Objects the disconnect loop can show.
OwnedIds(c) ==
    {r.id : r \in {x \in reg[Server] :
                     Alive(Server, x.id) /\ x.spawned /\ x.owner = c}}

\* NetworkInternal::NetworkReplicatorClientDisconnected on the server, called
\* for a disconnection event of a frame; the connection's traffic is gone
\* with it.
ClientDisconnected(c) ==
    /\ cstate[c] = "connected"
    /\ cstate' = [cstate EXCEPT ![c] = "left"]
    /\ \E ord \in Orders(OwnedIds(c)) :
       LET L0 == [FrameLocal(Server) EXCEPT
                    !.nc = @ \ {c},
                    !.left = {r.id : r \in {x \in reg[Server] : x.owner = c}}]
           res == RemoveOwnedBy(c, L0, world[Server],
                                InOrder(ord, {r.id : r \in reg[Server]}))
       IN Commit(Server, res.L, res.w, newCount[Server],
                 [down |-> [down EXCEPT ![c] = <<>>],
                  up |-> [up EXCEPT ![c] = <<>>],
                  unrel |-> {x \in unrel : x.from # c /\ x.to # c}],
                 {}, <<>>, {})
    /\ UNCHANGED ops

\* The loop of NetworkReplicatorClear over the records: a spawned record
\* with a live object has its object deleted and is removed.
RECURSIVE RemoveSpawned(_, _, _)
RemoveSpawned(L, w, ids) ==
    IF ids = <<>> THEN [L |-> L, w |-> w]
    ELSE LET item == Find(L.reg, Head(ids))
         IN IF Head(ids) \in DOMAIN w /\ item.spawned
            THEN RemoveSpawned([L EXCEPT !.reg = ObjectsRemove(@, Head(ids))],
                               DeleteNetworkObject(w, Head(ids)), Tail(ids))
            ELSE RemoveSpawned(L, w, Tail(ids))

\* NetworkInternal::NetworkReplicatorClear: the loop in the order a walk over
\* Objects meets the records, then the queues, the
\* remap table and the new clients are cleared.
NetworkReplicatorClear(p, L) ==
    LET res == RemoveSpawned(L, world[p], InOrder(L.ord, {r.id : r \in L.reg}))
    IN [L |-> [res.L EXCEPT !.sq = <<>>, !.dq = <<>>, !.remap = <<>>,
                            !.nc = {}, !.clr = TRUE],
        w |-> res.w]

\* The network manager shuts the replicator of peer p down.
NetworkReplicatorClearCall(p) ==
    /\ ops < MaxOps
    /\ \E ord \in Orders({r.id : r \in {x \in reg[p] : Alive(p, x.id) /\ x.spawned}}) :
       LET res == NetworkReplicatorClear(p, [Local(p) EXCEPT !.ord = ord])
       IN Commit(p, res.L, res.w, newCount[p], Net, {}, <<>>, {})
    /\ ops' = ops + 1
    /\ UNCHANGED cstate

\* Game code of peer p calls AddSerializer(typeHandle, ...) with the callbacks
\* and tags of serializer.  The table is the one of p's process.
AddSerializerCall(p, typeHandle, serializer) ==
    /\ ops < MaxOps
    /\ serial' = [serial EXCEPT ![p] = AddSerializer(@, typeHandle, serializer)]
    /\ hist' = [hist EXCEPT !.serializerCall =
                    {[op |-> "AddSerializer", peer |-> p, type |-> typeHandle,
                      serializer |-> serializer]}]
    /\ ops' = ops + 1
    /\ outbox' = <<>>
    /\ UNCHANGED <<world, newCount, reg, spawnQ, despawnQ, remap, published,
                   cstate, newClients, frame, updated, down, up, unrel>>

\* InvokeSerializer(typeHandle, instance, stream, serialize) is called on
\* peer p; valid: instance and stream are not null.
InvokeSerializerCall(p, typeHandle, valid, serialize) ==
    /\ ops < MaxOps
    /\ LET inv == InvokeSerializer(serial[p], typeHandle, valid, serialize)
       IN /\ serial' = [serial EXCEPT ![p] = inv.table]
          /\ hist' = [hist EXCEPT !.serializerCall =
                          {[op |-> "InvokeSerializer", peer |-> p,
                            type |-> typeHandle,
                            valid |-> valid, serialize |-> serialize,
                            failed |-> inv.failed, call |-> inv.call]}]
    /\ ops' = ops + 1
    /\ outbox' = <<>>
    /\ UNCHANGED <<world, newCount, reg, spawnQ, despawnQ, remap, published,
                   cstate, newClients, frame, updated, down, up, unrel>>

\* ------------------------------------------------------------ specification

\* The objects of the session.  Every peer loads the scene's root actor 1
\* with the same id.  Game code of each peer makes an actor of its own below
\* the root, with an id of its own (OwnChild).  The server also holds an
\* instance of prefab 90 below the root: the actor 20 and its script 21.
OwnChild(p) == 10 + p

SceneWorld(p) ==
    [o \in {1, OwnChild(p)} |->
        IF o = 1 THEN Obj("TA", "Actor", EmptyGuid, EmptyGuid, EmptyGuid, 0)
        ELSE Obj("TB", "Actor", 1, EmptyGuid, EmptyGuid, 0)]

PrefabWorld(p) ==
    IF IsClient(p)
    THEN [o \in {1} |-> Obj("TA", "Actor", EmptyGuid, EmptyGuid, EmptyGuid, 0)]
    ELSE [o \in {1, 20, 21} |->
            IF o = 1 THEN Obj("TA", "Actor", EmptyGuid, EmptyGuid, EmptyGuid, 0)
            ELSE IF o = 20 THEN Obj("TA", "Actor", 1, 90, 91, 0)
            ELSE Obj("TB", "Script", 20, 90, 92, 0)]

\* The registry of peer p after game code called AddObject for ids.
RECURSIVE Added(_, _, _)
Added(p, R, ids) ==
    IF ids = <<>> THEN R
    ELSE Added(p, AddObject(p, R, Head(ids), EmptyGuid), Tail(ids))

\* A session in which the types of S have serializers, the clients of C
\* have connected and game code has registered the objects ids[p] on every
\* peer p that is online; nothing was sent.  The connections were made in
\* the server's first frame, which is under way.
Session(W, S, C, ids) ==
    /\ world = W
    /\ serial = [p \in Peers |->
                 [t \in S |-> Serializer("Serialize1", "Deserialize1", 1, 2)]]
    /\ cstate = [c \in Clients |-> IF c \in C THEN "connected" ELSE "offline"]
    /\ newClients = C
    /\ reg = [p \in Peers |-> Added(p, {}, SetToSeq(ids[p]))]
    /\ newCount = [p \in Peers |-> 0]
    /\ spawnQ = [p \in Peers |-> <<>>]
    /\ despawnQ = [p \in Peers |-> <<>>]
    /\ remap = [p \in Peers |-> <<>>]
    /\ published = [p \in Peers |-> p = Server /\ C # {}]
    /\ frame = [p \in Peers |-> IF p = Server /\ C # {} THEN 1 ELSE 0]
    /\ updated = [p \in Peers |-> 0]
    /\ down = [c \in Clients |-> <<>>]
    /\ up = [c \in Clients |-> <<>>]
    /\ unrel = {}
    /\ ops = 0
    /\ outbox = <<>>
    /\ hist = HistInit

\* The peers whose game code and network tick run.
Running == {p \in Peers : Online(p)}

\* Ownership: the scene is loaded and registered on the server and on
\* client 1, which has connected.  The server spawns its objects; either
\* peer sets ownership; the server's ticks and the deliveries interleave
\* freely.
InitOwnership ==
    Session([p \in Peers |-> SceneWorld(p)], Types, {1}, [p \in Peers |-> {1}])

NextOwnership ==
    \/ \E o \in DOMAIN world[Server] : SpawnObjectCall(Server, o, {})
    \/ \E p \in Running : \E o \in DOMAIN world[p] :
          \E w \in Running, r \in {Replicated, OwnedAuthoritative} :
             SetObjectOwnershipCall(p, o, w, r, FALSE)
    \/ Tick(Server)
    \/ \E x \in unrel : \E pick \in Picks(x.to, Local(x.to), x.m) :
          \E dup \in Outcomes : ReceiveReplicate(x, pick, dup)
    \/ \E c \in Clients : \E p \in {Server, c} :
          \E pick \in Picks(p, Local(p), Head(Incoming(p, c) \o <<NoMsg>>)) :
             \E dup \in Outcomes : ReceiveSpawn(p, c, pick, dup)
    \/ \E c \in Clients : \E p \in {Server, c} : ReceiveRole(p, c)

SpecOwnership == InitOwnership /\ [][NextOwnership]_vars

\* Replication: the server and client 1 have each registered the root and
\* their own actor below it before any traffic.  The server's game code
\* writes its objects and may spawn them or hand the root to another client;
\* the server ticks; client 1 handles what arrives, in any order.
InitReplication ==
    Session([p \in Peers |-> SceneWorld(p)], Types, {1},
            [p \in Peers |-> {1, OwnChild(p)}])

NextReplication ==
    \/ \E v \in Vals : WriteObject(Server, 1, v)
    \/ SpawnObjectCall(Server, OwnChild(Server), {})
    \/ SetObjectOwnershipCall(Server, 1, 2, Replicated, FALSE)
    \/ Tick(Server)
    \/ \E x \in unrel : \E pick \in Picks(x.to, Local(x.to), x.m) :
          \E dup \in Outcomes : ReceiveReplicate(x, pick, dup)
    \/ \E c \in Clients :
          \E pick \in Picks(c, Local(c), Head(Incoming(c, c) \o <<NoMsg>>)) :
             \E dup \in Outcomes : ReceiveSpawn(c, c, pick, dup)
    \/ \E c \in Clients : ReceiveRole(c, c)

SpecReplication == InitReplication /\ [][NextReplication]_vars

\* Reconciliation: the same start.  The server writes and spawns its own
\* actor; both peers tick and handle what arrives.
NextReconcile ==
    \/ \E v \in Vals : WriteObject(Server, OwnChild(Server), v)
    \/ SpawnObjectCall(Server, OwnChild(Server), {})
    \/ \E p \in Running : Tick(p)
    \/ \E x \in unrel : \E pick \in Picks(x.to, Local(x.to), x.m) :
          \E dup \in Outcomes : ReceiveReplicate(x, pick, dup)
    \/ \E c \in Clients : \E p \in {Server, c} :
          \E pick \in Picks(p, Local(p), Head(Incoming(p, c) \o <<NoMsg>>)) :
             \E dup \in Outcomes : ReceiveSpawn(p, c, pick, dup)

SpecReconcile == InitReplication /\ [][NextReconcile]_vars

\* Spawning: the server has registered the root and holds an instance of
\* the prefab; no type has a serializer, so no state is sent; no client has
\* connected yet.  Game code adds and spawns
\* objects, for all clients or for one, and may destroy the prefab instance;
\* clients connect; the server ticks; clients handle what arrives.
InitSpawn ==
    Session([p \in Peers |-> PrefabWorld(p)], {}, {},
            [p \in Peers |-> IF p = Server THEN {1} ELSE {}])

NextSpawn ==
    \/ \E p \in Running : \E o \in DOMAIN world[p] : AddObjectCall(p, o)
    \/ \E o \in DOMAIN world[Server] : \E t \in {{}, {1}} :
          SpawnObjectCall(Server, o, t)
    \/ DestroyObject(Server, 20)
    \/ \E c \in Clients : ClientConnected(c)
    \/ Tick(Server)
    \/ \E c \in Clients :
          \E pick \in Picks(c, Local(c), Head(Incoming(c, c) \o <<NoMsg>>)) :
             \E dup \in Outcomes : ReceiveSpawn(c, c, pick, dup)

SpecSpawn == InitSpawn /\ [][NextSpawn]_vars

\* Remapping: the same start.  The server spawns its own actor, client 1's
\* game code may destroy the client's; both peers tick and handle what
\* arrives.
NextRemap ==
    \/ SpawnObjectCall(Server, OwnChild(Server), {})
    \/ DestroyObject(1, OwnChild(1))
    \/ \E p \in Running : Tick(p)
    \/ \E x \in unrel : \E pick \in Picks(x.to, Local(x.to), x.m) :
          \E dup \in Outcomes : ReceiveReplicate(x, pick, dup)
    \/ \E c \in Clients : \E p \in {Server, c} :
          \E pick \in Picks(p, Local(p), Head(Incoming(p, c) \o <<NoMsg>>)) :
             \E dup \in Outcomes : ReceiveSpawn(p, c, pick, dup)

SpecRemap == InitReplication /\ [][NextRemap]_vars

\* Announcement: both clients have connected and every peer has registered
\* the root; no type has a serializer, so no state is replicated.  The
\* server hands the root to a client, any peer spawns it (a client for all
\* or for client 2 only), every peer ticks and handles what arrives.
InitAnnounce ==
    Session([p \in Peers |-> SceneWorld(p)], {}, Clients, [p \in Peers |-> {1}])

NextAnnounce ==
    \/ \E c \in Clients : SetObjectOwnershipCall(Server, 1, c, Replicated, FALSE)
    \/ \E p \in Running : \E t \in IF IsClient(p) THEN {{}, {2}} ELSE {{}} :
          SpawnObjectCall(p, 1, t)
    \/ \E p \in Running : Tick(p)
    \/ \E c \in Clients : \E p \in {Server, c} :
          \E pick \in Picks(p, Local(p), Head(Incoming(p, c) \o <<NoMsg>>)) :
             \E dup \in Outcomes : ReceiveSpawn(p, c, pick, dup)
    \/ \E c \in Clients : \E p \in {Server, c} : ReceiveRole(p, c)

SpecAnnounce == InitAnnounce /\ [][NextAnnounce]_vars

\* Late join: nobody has connected.  The server has registered its own actor
\* or nothing at all; it spawns objects while it is alone, clients connect
\* before its second tick, the server ticks and the clients handle what
\* arrives.
InitLateJoin ==
    \E ids \in {{}, {OwnChild(Server)}} :
        Session([p \in Peers |-> SceneWorld(p)], {}, {},
                [p \in Peers |-> IF p = Server THEN ids ELSE {}])

NextLateJoin ==
    \/ \E o \in DOMAIN world[Server] :
          Connected = {} /\ SpawnObjectCall(Server, o, {})
    \/ \E c \in Clients : updated[Server] < 2 /\ ClientConnected(c)
    \/ Tick(Server)
    \/ \E c \in Clients :
          \E pick \in Picks(c, Local(c), Head(Incoming(c, c) \o <<NoMsg>>)) :
             \E dup \in Outcomes : ReceiveSpawn(c, c, pick, dup)

SpecLateJoin == InitLateJoin /\ [][NextLateJoin]_vars

\* Despawning: the scene is loaded on the server and on client 1, which has
\* connected; the server has registered the root and its own actor, the
\* client the root.  No type has a serializer.  The server spawns objects,
\* either peer despawns, the server ticks and the client handles what
\* arrives.
InitDespawn ==
    Session([p \in Peers |-> SceneWorld(p)], {}, {1},
            [p \in Peers |-> IF p = Server THEN {1, OwnChild(p)} ELSE {1}])

NextDespawn ==
    \/ \E o \in DOMAIN world[Server] : SpawnObjectCall(Server, o, {})
    \/ \E p \in Running : \E o \in DOMAIN world[p] : DespawnObjectCall(p, o)
    \/ Tick(Server)
    \/ \E c \in Clients :
          \E pick \in Picks(c, Local(c), Head(Incoming(c, c) \o <<NoMsg>>)) :
             \E dup \in Outcomes : ReceiveSpawn(c, c, pick, dup)
    \/ \E c \in Clients : ReceiveDespawn(c, c)
    \/ \E p \in Peers : ObjectsRemovalFlush(p)

SpecDespawn == InitDespawn /\ [][NextDespawn]_vars

\* The messages a client may make up about the server's objects: a role
\* message that names itself owner, a despawn message, and a replicate
\* message under the server's id or under an id of its own for the same
\* parent and type.
RawMessages(c) ==
    {Msg("Role", id, EmptyGuid, c, NoType, 0, 0, EmptyGuid, EmptyGuid) :
        id \in {1, OwnChild(Server)}}
    \cup {Msg("Despawn", id, EmptyGuid, ServerClientId, NoType, 0, 0,
              EmptyGuid, EmptyGuid) : id \in {1, OwnChild(Server)}}
    \cup {Msg("Replicate", id, 1, ServerClientId, "TB", 2, 1, EmptyGuid,
              EmptyGuid) : id \in {OwnChild(Server), OwnChild(c)}}

\* Senders: the scene is loaded on the server and on client 1, which has
\* connected; the server has registered the root and its own actor.  The
\* server spawns its objects, may hand the root to the client, and ticks;
\* the client sends what it likes and the server handles it.
InitSender ==
    Session([p \in Peers |-> SceneWorld(p)], {}, {1},
            [p \in Peers |-> IF p = Server THEN {1, OwnChild(p)} ELSE {1}])

NextSender ==
    \/ \E o \in DOMAIN world[Server] : SpawnObjectCall(Server, o, {})
    \/ \E c \in Connected : SetObjectOwnershipCall(Server, 1, c, Replicated, FALSE)
    \/ Tick(Server)
    \/ \E c \in Clients : \E m \in RawMessages(c) : ClientSendsRaw(c, m)
    \/ \E x \in {y \in unrel : y.to = Server} :
          \E pick \in Picks(x.to, Local(x.to), x.m) :
             \E dup \in Outcomes : ReceiveReplicate(x, pick, dup)
    \/ \E c \in Clients : ReceiveDespawn(Server, c)
    \/ \E c \in Clients : ReceiveRole(Server, c)
    \/ \E p \in Peers : ObjectsRemovalFlush(p)

SpecSender == InitSender /\ [][NextSender]_vars

\* Disconnecting: the scene is loaded everywhere and both clients have
\* connected; the server has registered the root and its own actor.  The
\* server spawns its objects, hands them to clients, one by one or with the
\* records below them, and ticks; clients disconnect.
InitDisconnect ==
    Session([p \in Peers |-> SceneWorld(p)], {}, Clients,
            [p \in Peers |-> IF p = Server THEN {1, OwnChild(p)} ELSE {1}])

NextDisconnect ==
    \/ \E o \in DOMAIN world[Server] : SpawnObjectCall(Server, o, {})
    \/ \E o \in DOMAIN world[Server] : \E c \in Connected : \E h \in BOOLEAN :
          SetObjectOwnershipCall(Server, o, c, Replicated, h)
    \/ Tick(Server)
    \/ \E c \in Clients : ClientDisconnected(c)
    \/ \E p \in Peers : ObjectsRemovalFlush(p)

SpecDisconnect == InitDisconnect /\ [][NextDisconnect]_vars

\* Forwarding: the scene is loaded everywhere, both clients have connected,
\* every peer has registered the root and all types have serializers.  The
\* server hands the root to a client; every peer ticks and handles the role
\* and replicate messages that arrive.
InitForward ==
    Session([p \in Peers |-> SceneWorld(p)], Types, Clients,
            [p \in Peers |-> {1}])

NextForward ==
    \/ \E c \in Clients : SetObjectOwnershipCall(Server, 1, c, Replicated, FALSE)
    \/ \E p \in Running : Tick(p)
    \/ \E x \in unrel : \E pick \in Picks(x.to, Local(x.to), x.m) :
          \E dup \in Outcomes : ReceiveReplicate(x, pick, dup)
    \/ \E c \in Clients : ReceiveRole(c, c)

SpecForward == InitForward /\ [][NextForward]_vars

\* Targets: both clients have connected; the server has registered the root
\* and its own actor.  The server spawns its objects for client 1 only,
\* despawns them, hands them to a client, and ticks.
InitTargets ==
    Session([p \in Peers |-> SceneWorld(p)], {}, Clients,
            [p \in Peers |-> IF p = Server THEN {1, OwnChild(p)} ELSE {}])

NextTargets ==
    \/ \E o \in DOMAIN world[Server] : SpawnObjectCall(Server, o, {1})
    \/ \E o \in DOMAIN world[Server] : DespawnObjectCall(Server, o)
    \/ \E o \in DOMAIN world[Server] : \E c \in Clients :
          SetObjectOwnershipCall(Server, o, c, Replicated, FALSE)
    \/ Tick(Server)
    \/ \E p \in Peers : ObjectsRemovalFlush(p)

SpecTargets == InitTargets /\ [][NextTargets]_vars

\* The peers whose replicator runs: online, not shut down and not faulted.
Live == {p \in Running : p \notin hist.cleared \cup hist.fault}

\* Shutdown: the scene is loaded on the server and on client 1, which has
\* connected; the server has registered the root and its own actor, the
\* client the root.  The server spawns its objects and ticks, the client
\* handles what arrives; the replicator of either peer is shut down, after
\* which that peer does nothing more.
InitShutdown ==
    Session([p \in Peers |-> SceneWorld(p)], {}, {1},
            [p \in Peers |-> IF p = Server THEN {1, OwnChild(p)} ELSE {1}])

NextShutdown ==
    \/ \E o \in DOMAIN world[Server] :
          Server \in Live /\ SpawnObjectCall(Server, o, {})
    \/ Server \in Live /\ Tick(Server)
    \/ \E c \in Clients \cap Live :
          \E pick \in Picks(c, Local(c), Head(Incoming(c, c) \o <<NoMsg>>)) :
             \E dup \in Outcomes : ReceiveSpawn(c, c, pick, dup)
    \/ \E p \in Live : NetworkReplicatorClearCall(p)
    \/ \E p \in Peers : ObjectsRemovalFlush(p)

SpecShutdown == InitShutdown /\ [][NextShutdown]_vars

\* Removal: the scene is loaded on the server and on client 1, which has
\* connected; the server has registered the root and its own actor, the
\* client the root.  Game code adds, removes and spawns objects, the server
\* ticks and the client handles what arrives.
InitRemove ==
    Session([p \in Peers |-> SceneWorld(p)], {}, {1},
            [p \in Peers |-> IF p = Server THEN {1, OwnChild(p)} ELSE {1}])

NextRemove ==
    \/ \E p \in Live : \E o \in DOMAIN world[p] : AddObjectCall(p, o)
    \/ \E p \in Live : \E o \in DOMAIN world[p] : \E ub \in {"read", "fault"} :
          RemoveObjectCall(p, o, ub)
    \/ \E o \in DOMAIN world[Server] :
          Server \in Live /\ SpawnObjectCall(Server, o, {})
    \/ Server \in Live /\ Tick(Server)
    \/ \E c \in Clients \cap Live :
          \E pick \in Picks(c, Local(c), Head(Incoming(c, c) \o <<NoMsg>>)) :
             \E dup \in Outcomes : ReceiveSpawn(c, c, pick, dup)

SpecRemove == InitRemove /\ [][NextRemove]_vars

\* Roles: the scene is loaded on the server and on client 1, which has
\* connected; the server has registered its own actor, the client the root.
\* Game code adds objects, the server spawns, either peer hands an object to
\* the other peer with role Replicated; both peers tick and handle the spawn
\* and role messages that arrive.
InitRoles ==
    Session([p \in Peers |-> SceneWorld(p)], {}, {1},
            [p \in Peers |-> IF p = Server THEN {OwnChild(p)} ELSE {1}])

NextRoles ==
    \/ \E p \in Running : \E o \in DOMAIN world[p] : AddObjectCall(p, o)
    \/ \E o \in DOMAIN world[Server] : SpawnObjectCall(Server, o, {})
    \/ \E p \in Running : \E o \in DOMAIN world[p] : \E w \in Running \ {p} :
          SetObjectOwnershipCall(p, o, w, Replicated, FALSE)
    \/ \E p \in Running : Tick(p)
    \/ \E c \in Clients : \E p \in {Server, c} :
          \E pick \in Picks(p, Local(p), Head(Incoming(p, c) \o <<NoMsg>>)) :
             \E dup \in Outcomes : ReceiveSpawn(p, c, pick, dup)
    \/ \E c \in Clients : \E p \in {Server, c} : ReceiveRole(p, c)

SpecRoles == InitRoles /\ [][NextRoles]_vars

\* Ownership transitions: the server holds the root, the prefab instance
\* below it and the instance's script, all registered; client 1 has
\* connected and registered the root.  Game code of either peer calls
\* SetObjectOwnership with any owner, role and hierarchy flag; the role
\* messages are handled.
InitTransition ==
    Session([p \in Peers |-> PrefabWorld(p)], {}, {1},
            [p \in Peers |-> IF p = Server THEN {1, 20, 21} ELSE {1}])

NextTransition ==
    \/ \E p \in Running : \E o \in DOMAIN world[p] :
          \E w \in {Server, 1, 2} : \E r \in Roles : \E h \in BOOLEAN :
             SetObjectOwnershipCall(p, o, w, r, h)
    \/ \E c \in Clients : \E p \in {Server, c} : ReceiveRole(p, c)

SpecTransition == InitTransition /\ [][NextTransition]_vars

\* Relaying: the scene is loaded everywhere, both clients have connected and
\* every peer has registered the root.  Game code of any peer hands the root
\* to another peer with role Replicated; every peer handles the role
\* messages that arrive; a client may disconnect.
InitRelay ==
    Session([p \in Peers |-> SceneWorld(p)], {}, Clients, [p \in Peers |-> {1}])

NextRelay ==
    \/ \E p \in Running : \E w \in Running \ {p} :
          SetObjectOwnershipCall(p, 1, w, Replicated, FALSE)
    \/ \E c \in Clients : \E p \in {Server, c} : ReceiveRole(p, c)
    \/ \E c \in Clients : ClientDisconnected(c)

SpecRelay == InitRelay /\ [][NextRelay]_vars

\* Hierarchy: the same start as for the ownership transitions.  Game code
\* of either peer calls SetObjectOwnership, hierarchical or not, with a role
\* the call allows; the server's game code may destroy the prefab instance
\* or its script; the role messages are handled.
NextHierarchy ==
    \/ \E p \in Running : \E o \in DOMAIN world[p] :
          \E w \in Running : \E h \in BOOLEAN :
             SetObjectOwnershipCall(p, o, w,
                 IF w = p THEN OwnedAuthoritative ELSE Replicated, h)
    \/ \E o \in {20, 21} : DestroyObject(Server, o)
    \/ \E c \in Clients : \E p \in {Server, c} : ReceiveRole(p, c)

SpecHierarchy == InitTransition /\ [][NextHierarchy]_vars

\* The server's spawn queue holds an entry of obj.
Queued(obj) == \E i \in 1..Len(spawnQ[Server]) : spawnQ[Server][i].obj = obj

\* Spawning for another owner: both clients have connected; the server has
\* registered the root or its own actor, not both.  The server's game code
\* calls SpawnObject for an object that is not queued and then
\* SetObjectOwnership for a queued object that is still the server's, naming
\* a client as owner; the server ticks and the clients handle what arrives.
InitSpawnFor ==
    \E ids \in {{1}, {OwnChild(Server)}} :
        Session([p \in Peers |-> SceneWorld(p)], {}, Clients,
                [p \in Peers |-> IF p = Server THEN ids ELSE {}])

NextSpawnFor ==
    \/ \E o \in DOMAIN world[Server] :
          ~Queued(o) /\ SpawnObjectCall(Server, o, {})
    \/ \E o \in DOMAIN world[Server] : \E c \in Clients :
          /\ Queued(o)
          /\ HasRec(reg[Server], o) => Find(reg[Server], o).owner = Server
          /\ SetObjectOwnershipCall(Server, o, c, Replicated, FALSE)
    \/ Tick(Server)
    \/ \E c \in Clients :
          \E pick \in Picks(c, Local(c), Head(Incoming(c, c) \o <<NoMsg>>)) :
             \E dup \in Outcomes : ReceiveSpawn(c, c, pick, dup)
    \/ \E c \in Clients : ReceiveRole(c, c)

SpecSpawnFor == InitSpawnFor /\ [][NextSpawnFor]_vars

\* A scene in which the server's game code has made two actors of the same
\* type below the root, 10 and 12; the clients hold the root only.
TwinWorld(p) ==
    IF IsClient(p)
    THEN [o \in {1} |-> Obj("TA", "Actor", EmptyGuid, EmptyGuid, EmptyGuid, 0)]
    ELSE [o \in {1, 10, 12} |->
            IF o = 1 THEN Obj("TA", "Actor", EmptyGuid, EmptyGuid, EmptyGuid, 0)
            ELSE Obj("TB", "Actor", 1, EmptyGuid, EmptyGuid, 0)]

\* Twins: client 1 has connected; the server and the client have registered
\* the root.  The server spawns its objects and ticks; game code of the
\* client may register what the client holds; the client handles the spawn
\* messages.
InitTwins ==
    Session([p \in Peers |-> TwinWorld(p)], {}, {1}, [p \in Peers |-> {1}])

NextTwins ==
    \/ \E o \in DOMAIN world[Server] : SpawnObjectCall(Server, o, {})
    \/ \E c \in Connected : \E o \in DOMAIN world[c] : AddObjectCall(c, o)
    \/ Tick(Server)
    \/ \E c \in Clients :
          \E pick \in Picks(c, Local(c), Head(Incoming(c, c) \o <<NoMsg>>)) :
             \E dup \in Outcomes : ReceiveSpawn(c, c, pick, dup)

SpecTwins == InitTwins /\ [][NextTwins]_vars

\* Convergence: the scene is loaded everywhere, both clients have connected
\* and every peer has registered the root.  The server spawns the root and
\* may hand it to a client; the root's owner despawns it; every peer ticks
\* and handles the spawn, role and despawn messages that arrive.
InitConverge ==
    Session([p \in Peers |-> SceneWorld(p)], {}, Clients, [p \in Peers |-> {1}])

NextConverge ==
    \/ SpawnObjectCall(Server, 1, {})
    \/ \E c \in Clients : SetObjectOwnershipCall(Server, 1, c, Replicated, FALSE)
    \/ \E p \in Running : Alive(p, 1) /\ DespawnObjectCall(p, 1)
    \/ \E p \in Running : Tick(p)
    \/ \E c \in Clients :
          \E pick \in Picks(c, Local(c), Head(Incoming(c, c) \o <<NoMsg>>)) :
             \E dup \in Outcomes : ReceiveSpawn(c, c, pick, dup)
    \/ \E c \in Clients : ReceiveRole(c, c)
    \/ \E c \in Clients : \E p \in {Server, c} : ReceiveDespawn(p, c)
    \/ \E p \in Peers : ObjectsRemovalFlush(p)

SpecConverge == InitConverge /\ [][NextConverge]_vars

\* Ticking: the scene is loaded everywhere; client 1 has connected or nobody
\* has; the server and client 1 have each registered the root or nothing.
\* Game code registers and spawns objects, clients connect, every running
\* peer ticks and the clients handle what arrives.
InitTick ==
    \E C \in {{}, {1}} : \E ids \in {{}, {1}} :
        Session([p \in Peers |-> SceneWorld(p)], Types, C,
                [p \in Peers |-> ids])

NextTick ==
    \/ \E p \in Running : \E o \in DOMAIN world[p] : AddObjectCall(p, o)
    \/ \E o \in DOMAIN world[Server] : SpawnObjectCall(Server, o, {})
    \/ ClientConnected(1)
    \/ \E p \in Running : Tick(p)
    \/ \E c \in Clients :
          \E pick \in Picks(c, Local(c), Head(Incoming(c, c) \o <<NoMsg>>)) :
             \E dup \in Outcomes : ReceiveSpawn(c, c, pick, dup)

SpecTick == InitTick /\ [][NextTick]_vars

\* Serializers: no serializer is registered.  Game code of the server and
\* of client 1 registers serializers for scripting types, a null handle
\* included, and the serializer of a type is invoked in either direction,
\* with or without an instance and a stream; each process has its own
\* table.
InitSerializers ==
    Session([p \in Peers |-> SceneWorld(p)], {}, {},
            [p \in Peers |-> {}])

NextSerializers ==
    \/ \E p \in {Server, 1} : \E t \in ScriptingTypes \cup {NoType} :
          \E s \in UserSerializers : AddSerializerCall(p, t, s)
    \/ \E p \in {Server, 1} : \E t \in ScriptingTypes \cup {NoType} :
          \E v, d \in BOOLEAN : InvokeSerializerCall(p, t, v, d)

SpecSerializers == InitSerializers /\ [][NextSerializers]_vars

\* ------------------------------------------------------------------ claims

\* The id under which the server knows the record id of peer p: a client's
\* remap table maps the server's id to its own.
Canon(p, id) == IF IsClient(p) THEN KeyOf(remap[p], <<>>, id) ELSE id

\* The peers whose record of the logical object k is OwnedAuthoritative.
Authorities(k) ==
    {p \in Peers : \E r \in reg[p] :
        Canon(p, r.id) = k /\ r.role = OwnedAuthoritative}

LogicalIds == UNION {{Canon(p, r.id) : r \in reg[p]} : p \in Peers}

\* C1: single authority.  In every reachable state, for each logical object
\* at most one peer's record has role OwnedAuthoritative.
C1_SingleAuthority ==
    \A k \in LogicalIds : Cardinality(Authorities(k)) <= 1

\* The record a replicate message x is for on its addressee: the one its id
\* resolves to, or the one the handler's lookup by parent and type maps it to
\* in this step; Guid::Empty if the peer knows none.
RecordFor(x) ==
    LET p == x.to
        direct == ResolveObject(Local(p), x.m.id)
    IN IF direct # EmptyGuid THEN direct
       ELSE IF x.m.id \in DOMAIN remap'[p] /\ HasRec(reg[p], remap'[p][x.m.id])
            THEN remap'[p][x.m.id]
            ELSE EmptyGuid

\* C2: stale-frame rejection.  In a step that handles a replicate message for
\* a record the peer knows: a message whose frame is not above the record's
\* last_owner_frame changes neither the registry nor the objects; a message
\* that changes anything had a frame strictly above it, leaves
\* last_owner_frame equal to its frame and the object holding its payload.
\* So of frames 2 and 1 arriving in either order, frame 2's state stays.
C2_StaleFrameRejection ==
    [][\A x \in unrel \ unrel' :
          LET p == x.to
              id == RecordFor(x)
              same == reg'[p] = reg[p] /\ world'[p] = world[p]
          IN cstate' = cstate /\ id # EmptyGuid =>
               /\ x.m.frame <= Find(reg[p], id).lof => same
               /\ ~same => /\ Find(reg[p], id).lof < x.m.frame
                           /\ Find(reg'[p], id).lof = x.m.frame
                           /\ world'[p][id].val = x.m.data]_vars

\* A record that accepted a frame and then dropped an earlier one as stale,
\* its object holding a state the sender wrote.
C2_Witness ==
    \E x \in hist.stale :
        /\ HasRec(reg[x[1]], x[2])
        /\ HasAcc(hist.acc, x[1], x[2])
        /\ AccOf(hist.acc, x[1], x[2]) = Find(reg[x[1]], x[2]).lof
        /\ x[3] < Find(reg[x[1]], x[2]).lof
        /\ world[x[1]][x[2]].val = 1

\* C3, as stated: the frame left by an accepted replicate update of a record
\* is never lower than the frame left by an earlier accepted update of that
\* record, whatever happened in between.
C3_MonotonicAcrossUpdates ==
    \A x \in hist.accAll : x[4] <= x[3]

\* C3, amended: the same between two hand-overs of the record's ownership
\* (the owner's SetObjectOwnership to another client, a handled role
\* message), each of which resets last_owner_frame.
C3_MonotonicBetweenHandovers ==
    \A x \in hist.acc : x[4] < x[3]

\* A record that accepted two replicate updates in a row.
C3_Witness ==
    \E x \in hist.acc :
        /\ 0 < x[4] /\ x[4] < x[3]
        /\ HasRec(reg[x[1]], x[2]) /\ Find(reg[x[1]], x[2]).lof = x[3]

\* The spawn messages the spawn drain of the last tick sent for id.
DrainSpawns(id) ==
    {i \in 1..Len(outbox) :
        /\ outbox[i].m.kind = "Spawn" /\ outbox[i].phase = "spawn"
        /\ outbox[i].m.id = id}

\* C4: idempotent spawn.  However often SpawnObject was called for an object
\* before a tick, the tick's spawn drain sends one spawn message for it and
\* the registry holds one record of it.
C4_IdempotentSpawn ==
    \A p \in Peers : \A id \in DOMAIN world[p] :
        DrainSpawns(id) # {} =>
            /\ Cardinality(DrainSpawns(id)) = 1
            /\ Cardinality({r \in reg[p] : r.id = id}) <= 1

\* No role message is in flight.
RolesDelivered ==
    \A c \in Clients :
        /\ \A i \in 1..Len(down[c]) : down[c][i].kind # "Role"
        /\ \A i \in 1..Len(up[c]) : up[c][i].kind # "Role"

\* C5: ownership transfer convergence.  After the owner of a spawned object
\* handed it to another running peer X and the role messages were delivered,
\* every peer holding a record of it has owner X, X's record is
\* OwnedAuthoritative and every other record is Replicated.
C5_TransferConvergence ==
    \A h \in hist.handover :
        RolesDelivered /\ h[2] \in Running =>
            /\ \E r \in reg[h[2]] :
                  Canon(h[2], r.id) = h[1] /\ r.role = OwnedAuthoritative
            /\ \A p \in Running : \A r \in reg[p] :
                  Canon(p, r.id) = h[1] =>
                      /\ r.owner = h[2]
                      /\ p # h[2] => r.role = Replicated

\* Peer p handles, in this step, a replicate or spawn message m from a peer
\* that added the object on its own: p knows no record under m's id but has
\* one of the same parent and type that never took a remote update.
FirstMessage(p, m) ==
    /\ ResolveObject(Local(p), m.id) = EmptyGuid
    /\ Candidates(p, Local(p), m.parent, m.type) # {}

\* What the claim promises of such a step: the remap table maps m's id to
\* that record, no record and no object is created, and the message is
\* applied to the record.
Reconciled(p, m) ==
    /\ m.id \in DOMAIN remap'[p]
    /\ remap'[p][m.id] \in Candidates(p, Local(p), m.parent, m.type)
    /\ {r.id : r \in reg'[p]} = {r.id : r \in reg[p]}
    /\ DOMAIN world'[p] = DOMAIN world[p]
    /\ LET new == Find(reg'[p], remap'[p][m.id])
       IN IF m.kind = "Spawn" THEN new.spawned /\ new.owner = m.owner
          ELSE new.lof = m.frame /\ world'[p][new.id].val = m.data

\* The steps of p that handle such a message are reconciled.
ReconcilesAt(p) ==
    /\ \A x \in unrel \ unrel' :
          x.to = p /\ FirstMessage(p, x.m) => Reconciled(p, x.m)
    /\ \A c \in Clients :
          /\ p \in {Server, c}
          /\ Incoming(p, c) # <<>>
          /\ Head(Incoming(p, c)).kind = "Spawn"
          /\ (IF p = Server THEN up'[c] ELSE down'[c]) = Tail(Incoming(p, c))
          /\ FirstMessage(p, Head(Incoming(p, c)))
          => Reconciled(p, Head(Incoming(p, c)))

\* C6, as stated: whichever peers A and B added the object, B reconciles A's
\* first replicate or spawn message for it with its own record.
C6_Reconciliation ==
    [][\A p \in Peers : ReconcilesAt(p)]_vars

\* C6, amended: a client B reconciles the first replicate or spawn message
\* of the server for an object both added.
C6_ReconciliationOnClient ==
    [][\A p \in Clients : ReconcilesAt(p)]_vars

\* Client 1 has mapped the server's actor to its own and applied a message
\* to it, holding no record beyond the two it added.
C6_Witness ==
    /\ OwnChild(Server) \in DOMAIN remap[1]
    /\ remap[1][OwnChild(Server)] = OwnChild(1)
    /\ LET r == Find(reg[1], OwnChild(1)) IN r.lof > 0 \/ r.spawned
    /\ {r.id : r \in reg[1]} = {1, OwnChild(1)}

\* C7: remap stability.  No step maps a remote id that the remap table holds
\* to another local id, drops it, or adds it again.
C7_RemapStability ==
    [][/\ \A p \in Peers : \A k \in DOMAIN remap[p] :
             k \in DOMAIN remap'[p] /\ remap'[p][k] = remap[p][k]
       /\ hist'.readd = hist.readd]_vars

\* C8: registry uniqueness.  No two records of a peer's registry have the
\* same object id.
C8_RegistryUnique ==
    \A p \in Peers : \A r \in reg[p] : \A q \in reg[p] : r.id = q.id => r = q

\* A client that created one prefab instance for the spawn message of one of
\* its objects, found the object of the other spawn message in that instance
\* and holds a record of each.
C8_Witness ==
    \E c \in Clients :
        /\ newCount[c] = 2
        /\ {20, 21} \subseteq DOMAIN remap[c]
        /\ \A k \in {20, 21} : HasRec(reg[c], remap[c][k])

\* The spawn messages the late-join sync of the last tick sent to c for id.
SyncSpawns(out, c, id) ==
    {i \in 1..Len(out) :
        /\ out[i].m.kind = "Spawn" /\ out[i].phase = "sync"
        /\ out[i].m.id = id /\ c \in out[i].to}

\* C9: spawn announcement.  For every spawned record of the server, a spawn
\* message of its id has been sent to every connected client that the
\* record's target list admits, the record's owner and the clients that
\* connected since the last server tick left aside.
C9_SpawnAnnouncement ==
    \A r \in reg[Server] : r.spawned =>
        \A c \in Connected \ newClients :
            (r.targets = {} \/ c \in r.targets) /\ c # r.owner
                => <<r.id, c>> \in hist.announced

\* C10: late-join catch-up.  A server tick sends a client one catch-up spawn
\* message for a record exactly if the client connected since the last tick
\* of a non-empty registry, the record is spawned, its object is alive and
\* its target list is empty or names the client; after the tick no client is
\* waiting for the catch-up.
C10_LateJoinCatchUp ==
    [][updated'[Server] # updated[Server] /\ reg[Server] # {} =>
          /\ newClients' = {}
          /\ \A c \in Clients : \A r \in reg[Server] :
                Cardinality(SyncSpawns(outbox', c, r.id)) =
                    IF /\ c \in newClients /\ cstate[c] = "connected"
                       /\ r.spawned /\ Alive(Server, r.id)
                       /\ (r.targets = {} \/ c \in r.targets)
                    THEN 1 ELSE 0]_vars

\* The last tick sent client 2 a catch-up spawn message while the server
\* holds a spawned record whose target list names client 1 only.
C10_Witness ==
    /\ \E i \in 1..Len(outbox) : outbox[i].phase = "sync" /\ 2 \in outbox[i].to
    /\ \E r \in reg[Server] : r.spawned /\ r.targets = {1} /\ Alive(Server, r.id)
    /\ newClients = {}

\* The server was asked to spawn object a: the spawn is queued or was sent.
SpawnRequested(a) ==
    \/ \E i \in 1..Len(spawnQ[Server]) : spawnQ[Server][i].obj = a
    \/ \E r \in reg[Server] : r.id = a /\ r.spawned

\* C11: spawn before connect.  An object the server was asked to spawn while
\* it was alone is known to a client that connected before the server's
\* second tick, once the server has ticked twice and the client has handled
\* all it was sent: the client has a record of it that is spawned, has role
\* Replicated and owner SERVER.
C11_SpawnBeforeConnect ==
    \A c \in Clients : \A a \in DOMAIN world[Server] :
        /\ cstate[c] = "connected" /\ updated[Server] >= 2 /\ down[c] = <<>>
        /\ SpawnRequested(a)
        => \E r \in reg[c] :
              /\ Canon(c, r.id) = a /\ r.spawned
              /\ r.role = Replicated /\ r.owner = ServerClientId

\* The positions in out of the messages of a kind sent by a part of the tick.
Sent(out, kind, phase) ==
    {i \in 1..Len(out) : out[i].m.kind = kind /\ out[i].phase = phase}

\* A tick of p gets as far as the queues: the registry is not empty and,
\* on the server, some client is connected.
ReachesDrains(p) == reg[p] # {} /\ (IsClient(p) \/ Connected # {})

\* The part of C12 that holds: in the messages of one tick every despawn
\* message of the despawn queue precedes every spawn message of the spawn
\* queue, all of them are sent reliable-ordered, and a tick that reaches the
\* queues and does not fault leaves both empty.
C12_DespawnBeforeSpawnUnlessFault ==
    [][\A p \in Peers : updated'[p] # updated[p] =>
          /\ \A i \in Sent(outbox', "Despawn", "despawn") :
                \A j \in Sent(outbox', "Spawn", "spawn") : i < j
          /\ \A i \in Sent(outbox', "Despawn", "despawn")
                       \cup Sent(outbox', "Spawn", "spawn") :
                outbox'[i].chan = "rel"
          /\ ReachesDrains(p) /\ p \notin hist'.fault =>
                spawnQ'[p] = <<>> /\ despawnQ'[p] = <<>>]_vars

\* C12: despawn before spawn.  In the messages of one tick every despawn
\* message of the despawn queue precedes every spawn message of the spawn
\* queue, all of them are sent reliable-ordered, and a tick that reaches the
\* queues leaves both empty.
C12_DespawnBeforeSpawn ==
    [][\A p \in Peers : updated'[p] # updated[p] =>
          /\ \A i \in Sent(outbox', "Despawn", "despawn") :
                \A j \in Sent(outbox', "Spawn", "spawn") : i < j
          /\ \A i \in Sent(outbox', "Despawn", "despawn")
                       \cup Sent(outbox', "Spawn", "spawn") :
                outbox'[i].chan = "rel"
          /\ ReachesDrains(p) => spawnQ'[p] = <<>> /\ despawnQ'[p] = <<>>]_vars

\* The last tick sent a despawn message and a spawn message and emptied the
\* queues.
C12_Witness ==
    /\ Sent(outbox, "Despawn", "despawn") # {}
    /\ Sent(outbox, "Spawn", "spawn") # {}
    /\ spawnQ[Server] = <<>> /\ despawnQ[Server] = <<>>

\* DespawnObject(o) on p has nothing to act on: o is not registered, not
\* spawned, or owned by another peer.
NotDespawnable(p, o) ==
    \/ ~HasRec(reg[p], o)
    \/ ~Find(reg[p], o).spawned
    \/ Find(reg[p], o).owner # p

\* C13: despawn requires ownership.  A DespawnObject call for an object that
\* is not registered, not spawned or owned by another peer leaves the
\* despawn queue, the spawn queue, the registry and the objects as they are.
C13_DespawnRequiresOwnership ==
    [][\A p \in Peers : \A o \in DOMAIN world[p] :
          DespawnObjectCall(p, o) /\ NotDespawnable(p, o) =>
              UNCHANGED <<despawnQ, spawnQ, reg, world>>]_vars

\* Client 1 called DespawnObject for an object whose record it held spawned
\* and owned by another peer, and for one it had not registered; both calls
\* changed nothing.
C13_Witness ==
    \E o \in DOMAIN world[1] : \E u \in DOMAIN world[1] :
        /\ <<1, o, "owner">> \in hist.ignored
        /\ <<1, u, "unregistered">> \in hist.ignored

\* Client c does not own the server's record id.
NotOwnedBy(c, id) ==
    id # EmptyGuid /\ HasRec(reg[Server], id) /\ Find(reg[Server], id).owner # c

\* The step left the server's records and objects alone and sent nothing.
ServerUntouched ==
    /\ reg'[Server] = reg[Server]
    /\ world'[Server] = world[Server]
    /\ outbox' = <<>>

\* C14: unauthorized sender rejection.  When the server handles a replicate,
\* despawn or role message of a client that does not own the record the
\* message is for, no record of the server changes or goes, no object is
\* written or destroyed, and nothing is sent on.
C14_SenderRejection ==
    [][\A c \in Clients : cstate' = cstate =>
          /\ ( /\ up[c] # <<>> /\ up'[c] = Tail(up[c])
               /\ Head(up[c]).kind \in {"Role", "Despawn"}
               /\ NotOwnedBy(c, ResolveObject(Local(Server), Head(up[c]).id)) )
             => ServerUntouched
          /\ \A x \in unrel \ unrel' :
                x.to = Server /\ x.from = c /\ NotOwnedBy(c, RecordFor(x))
                   => ServerUntouched]_vars

\* The server has dropped a replicate, a despawn and a role message of
\* client 1 for records client 1 does not own.
C14_Witness ==
    \A k \in {"Replicate", "Despawn", "Role"} :
        \E x \in hist.denied : x[1] = k /\ x[2] = 1

\* C15: owner disconnect emits no despawn.  No step of the server, the
\* handling of the disconnect and the ticks after it included, sends a
\* despawn message for an object that a client owned when it disconnected.
C15_NoDespawnOnDisconnect ==
    [][\A i \in 1..Len(outbox') :
          outbox'[i].m.kind = "Despawn" => outbox'[i].m.id \notin hist'.left]_vars

\* The spawned records of client c on the server whose objects are alive.
SpawnedOf(c) ==
    {r.id : r \in {x \in reg[Server] :
                     x.owner = c /\ x.spawned /\ Alive(Server, x.id)}}

\* C15, as the code has it: handling a disconnect sends nothing but appends
\* to the despawn queue the id of every spawned record of the client whose
\* object is alive, each once and no other id; the next tick of the server
\* that reaches the queues sends one despawn message per queued id, in queue
\* order, reliable-ordered, to every connected client; a tick that does not
\* reach the queues (no client connected, or no record) leaves the queued
\* ids where they are.
C15_DespawnQueuedOnDisconnect ==
    [][/\ \A c \in Clients : cstate[c] = "connected" /\ cstate'[c] = "left" =>
             /\ outbox' = <<>>
             /\ \E q \in [1..Cardinality(SpawnedOf(c)) -> SpawnedOf(c)] :
                   /\ \A i \in DOMAIN q : \A j \in DOMAIN q :
                         q[i] = q[j] => i = j
                   /\ despawnQ'[Server] = despawnQ[Server] \o q
       /\ updated'[Server] # updated[Server] /\ ReachesDrains(Server) =>
             LET sent == SetToSeq(Sent(outbox', "Despawn", "despawn"))
             IN /\ Len(sent) = Len(despawnQ[Server])
                /\ \A i \in 1..Len(sent) :
                      /\ outbox'[sent[i]].m.id = despawnQ[Server][i]
                      /\ outbox'[sent[i]].to = Connected
                      /\ outbox'[sent[i]].chan = "rel"
       /\ updated'[Server] # updated[Server] /\ ~ReachesDrains(Server) =>
             /\ despawnQ'[Server] = despawnQ[Server]
             /\ Sent(outbox', "Despawn", "despawn") = {}]_vars

\* The last tick sent client 2 a despawn message for an object that a
\* client owned when it disconnected.
C15_Witness ==
    \E i \in 1..Len(outbox) :
        /\ outbox[i].m.kind = "Despawn" /\ outbox[i].m.id \in hist.left
        /\ 2 \in outbox[i].to

\* A client that owned both spawned objects of the server has left, and the
\* despawn queue holds the ids of both, the child's before the root's.
C15_BothQueuedWitness ==
    /\ despawnQ[Server] = <<OwnChild(Server), 1>>
    /\ {OwnChild(Server), 1} \subseteq hist.left

\* The object is destroyed in w or on its way: DeleteObject was called for it
\* or for an actor above it.
Doomed(w, id) ==
    id \notin DOMAIN w \/ \E o \in DOMAIN w : w[o].dying /\ id \in Subtree(w, o)

\* Both clients have left, the second owning a spawned object; the server
\* has ticked since and the object's id is still in the despawn queue.
C15_StaysQueuedWitness ==
    /\ Connected = {}
    /\ ~InFrame(Server)
    /\ \E i \in 1..Len(despawnQ[Server]) : despawnQ[Server][i] \in hist.left

\* C16: owner disconnect removes records.  Right after the server handled
\* the disconnect of client c its registry holds no record owned by c, the
\* objects of the records c owned are destroyed, and the records of other
\* owners are as they were.
C16_DisconnectRemovesRecords ==
    [][\A c \in Clients : cstate[c] = "connected" /\ cstate'[c] = "left" =>
          /\ \A r \in reg'[Server] : r.owner # c
          /\ \A r \in reg[Server] :
                r.owner = c => Doomed(world'[Server], r.id)
          /\ \A r \in reg[Server] : r.owner # c => r \in reg'[Server]]_vars

\* C17: clients send only their own state.  Every replicate message that the
\* state loop of a client's tick sends is for a record whose role on that
\* client is OwnedAuthoritative.
C17_ClientsSendOwnState ==
    [][\A c \in Clients : updated'[c] # updated[c] =>
          \A i \in Sent(outbox', "Replicate", "state") :
              \E r \in reg'[c] :
                  /\ KeyOf(remap'[c], <<>>, r.id) = outbox'[i].m.id
                  /\ r.role = OwnedAuthoritative]_vars

\* C18: the server forwards client-owned state.  A tick of the server that
\* reaches its state loop sends, for every record that a client owns, whose
\* object is alive and whose type has a serializer, a replicate message to
\* the connected clients that its target list admits, the owner left out.
C18_ServerForwardsClientState ==
    [][updated'[Server] # updated[Server] /\ ReachesDrains(Server) =>
          \A r \in reg'[Server] :
              /\ r.owner \in Clients /\ r.role = Replicated
              /\ r.id \in DOMAIN world'[Server]
              /\ ~SerializerMissing(Server, world'[Server][r.id].type)
              => \E i \in Sent(outbox', "Replicate", "state") :
                    /\ outbox'[i].m.id = r.id
                    /\ outbox'[i].to =
                          {c \in Connected : /\ c # r.owner
                                             /\ r.targets = {} \/ c \in r.targets}]_vars

\* The local ids of client c that its remap table maps a remote id to.
MappedLocals(c) ==
    {remap[c][k] : k \in {j \in DOMAIN remap[c] : remap[c][j] # j}}

\* The message names no object by a local id that has a remote key.
Rewritten(c, m) ==
    m.id \notin MappedLocals(c) /\ m.parent \notin MappedLocals(c)

\* C19: client id rewrite.  No message that a client sends to the server,
\* reliable or not, names an object or a parent by a local id for which the
\* client's remap table holds a remote key: it carries the key instead.
C19_ClientIdRewrite ==
    [][\A c \in Clients :
          /\ \A j \in (Len(up[c]) + 1)..Len(up'[c]) : Rewritten(c, up'[c][j])
          /\ \A x \in unrel' \ unrel : x.from = c => Rewritten(c, x.m)]_vars

\* The server's record that a message of the step is about: the record of
\* its id after the step, or before it if the step removed the record.
AboutRecord(id) ==
    IF HasRec(reg'[Server], id) THEN Find(reg'[Server], id)
    ELSE Find(reg[Server], id)

\* C20: target-set confinement.  A message of a client goes to the server
\* only.  A message of the server goes to connected clients only, and if it
\* is about a record with a non-empty target list, only to clients of that
\* list.
C20_TargetConfinement ==
    [][\A i \in 1..Len(outbox') :
          \/ outbox'[i].to = {Server}
          \/ /\ outbox'[i].to \subseteq Connected
             /\ LET id == outbox'[i].m.id
                IN HasRec(reg'[Server] \cup reg[Server], id)
                   /\ AboutRecord(id).targets # {}
                   => outbox'[i].to \subseteq AboutRecord(id).targets]_vars

\* The queues, the remap table and the new clients of p are empty after the
\* step.
QueuesCleared(p) ==
    /\ spawnQ'[p] = <<>> /\ despawnQ'[p] = <<>>
    /\ remap'[p] = <<>>
    /\ p = Server => newClients' = {}

\* C21: shutdown drains everything.  When NetworkReplicatorClear returns on
\* a peer, its registry holds no record, spawned or only added, and its
\* spawn queue, despawn queue, remap table and list of new clients are empty.
C21_ShutdownDrains ==
    [][\A p \in Peers : NetworkReplicatorClearCall(p) =>
          reg'[p] = {} /\ QueuesCleared(p)]_vars

\* The part of C21 about the queues, the remap table and the new clients.
C21_QueuesCleared ==
    [][\A p \in Peers : NetworkReplicatorClearCall(p) => QueuesCleared(p)]_vars

\* C22: remove erases if present.  RemoveObject(o) for an object that has a
\* record deletes that record and no other; for an object without a record
\* it changes no record; either way both queues and the remap table stay
\* as they are.
C22_RemoveErases ==
    [][\A p \in Peers : \A o \in DOMAIN world[p] :
          (\E ub \in {"read", "fault"} : RemoveObjectCall(p, o, ub)) =>
              /\ reg'[p] = {r \in reg[p] : r.id # o}
              /\ UNCHANGED <<spawnQ, despawnQ, remap>>]_vars

\* What RemoveObject leaves alone in every case: the other records, both
\* queues and the remap table.
C22_RemoveKeepsOthers ==
    [][\A p \in Peers : \A o \in DOMAIN world[p] :
          (\E ub \in {"read", "fault"} : RemoveObjectCall(p, o, ub)) =>
              /\ {r \in reg'[p] : r.id # o} = {r \in reg[p] : r.id # o}
              /\ UNCHANGED <<spawnQ, despawnQ, remap>>]_vars

\* C23: role equals ownership.  In every reachable state a record of a peer
\* has role OwnedAuthoritative exactly if its owner is that peer.
C23_RoleEqualsOwnership ==
    \A p \in Peers : \A r \in reg[p] :
        (r.role = OwnedAuthoritative) <=> (r.owner = p)

\* The role messages of the step that name object o.
RoleMessages(o) ==
    {i \in 1..Len(outbox') : outbox'[i].m.kind = "Role" /\ outbox'[i].m.id = o}

\* C24: the transition relation of SetObjectOwnership(o, w, r, h) on peer p
\* for a registered object.  (a) p owns o and w = p: r must be
\* OwnedAuthoritative; no record changes and nothing is sent.  (b) p owns o
\* and w # p: r must not be OwnedAuthoritative; the record gets owner w, role
\* r and last_owner_frame 1 and one role message names o, with owner w.
\* (c) p does not own o: r must not be OwnedAuthoritative; the record gets
\* role r only and no role message names o.  A call with a role that is not
\* allowed changes no record and sends nothing.  A call that is not
\* hierarchical changes no other record and sends nothing else.
C24_OwnershipTransitions ==
    [][\A p \in Peers : \A o \in DOMAIN world[p] :
       \A w \in Peers : \A r \in Roles : \A h \in BOOLEAN :
          SetObjectOwnershipCall(p, o, w, r, h) /\ HasRec(reg[p], o) =>
             LET old == Find(reg[p], o)
                 isOwner == old.owner = p
                 allowed == IF isOwner /\ w = p THEN r = OwnedAuthoritative
                            ELSE r # OwnedAuthoritative
                 silent == reg'[p] = reg[p] /\ outbox' = <<>>
             IN /\ ~allowed => silent
                /\ allowed /\ isOwner /\ w = p => silent
                /\ allowed /\ isOwner /\ w # p =>
                      /\ HasRec(reg'[p], o)
                      /\ Find(reg'[p], o) =
                            [old EXCEPT !.owner = w, !.role = r, !.lof = 1]
                      /\ Cardinality(RoleMessages(o)) = 1
                      /\ \A i \in RoleMessages(o) : outbox'[i].m.owner = w
                /\ allowed /\ ~isOwner =>
                      /\ HasRec(reg'[p], o)
                      /\ Find(reg'[p], o) = [old EXCEPT !.role = r]
                      /\ RoleMessages(o) = {}
                /\ ~h => /\ \A x \in reg[p] : x.id # o => x \in reg'[p]
                         /\ Len(outbox') = Cardinality(RoleMessages(o))]_vars

\* The server, owner of the prefab instance, has handed it to client 1
\* with role None (case b), and client 1, which does not own the root, has
\* set its own role for it to None (case c).
C24_Witness ==
    /\ Find(reg[Server], 20).owner = 1 /\ Find(reg[Server], 20).role = RoleNone
    /\ Find(reg[Server], 20).lof = 1
    /\ \E i \in 1..Len(down[1]) : down[1][i].kind = "Role" /\ down[1][i].id = 20
    /\ Find(reg[1], 1).owner = Server /\ Find(reg[1], 1).role = RoleNone

\* The role message at the head of p's channel with c is one the handler
\* takes: p has a record of its object, the object is alive and, on the
\* server, the sending client is the record's owner.
RoleTaken(p, c) ==
    LET id == ResolveObject(Local(p), Head(Incoming(p, c)).id)
    IN /\ id # EmptyGuid /\ Alive(p, id)
       /\ p = Server => Find(reg[p], id).owner = c

\* C25: role message handling.  When a peer handles a role message that it
\* takes, the record's owner becomes the message's owner; if that is the
\* peer itself the role becomes OwnedAuthoritative and last_owner_frame 0,
\* otherwise a role of OwnedAuthoritative becomes Replicated and any other
\* role stays; no other record changes.  The server then sends one role
\* message with the record's id and new owner to every connected client but
\* the sender; a client sends nothing.
C25_RoleHandling ==
    [][\A c \in Clients : \A p \in {Server, c} :
          ReceiveRole(p, c) /\ RoleTaken(p, c) =>
             LET m == Head(Incoming(p, c))
                 id == ResolveObject(Local(p), m.id)
                 old == Find(reg[p], id)
                 new == Find(reg'[p], id)
             IN /\ HasRec(reg'[p], id)
                /\ new.owner = m.owner
                /\ IF m.owner = p
                   THEN new.role = OwnedAuthoritative /\ new.lof = 0
                   ELSE new.role = IF old.role = OwnedAuthoritative
                                   THEN Replicated ELSE old.role
                /\ new.id = old.id /\ new.parent = old.parent
                /\ new.spawned = old.spawned /\ new.targets = old.targets
                /\ \A x \in reg[p] : x.id # id => x \in reg'[p]
                /\ IF p = Server
                   THEN /\ Len(outbox') = 1
                        /\ outbox'[1].m.kind = "Role" /\ outbox'[1].m.id = id
                        /\ outbox'[1].m.owner = m.owner
                        /\ outbox'[1].to = Connected \ {c}
                        /\ outbox'[1].chan = "rel"
                   ELSE outbox' = <<>>]_vars

\* Client 1, made owner of the root by the server, has handed it to client
\* 2; the server has taken client 1's role message and relayed it to client
\* 2 alone.
C25_Witness ==
    /\ Len(outbox) = 1 /\ outbox[1].phase = "relay" /\ outbox[1].to = {2}
    /\ outbox[1].m.owner = 2
    /\ Find(reg[Server], 1).owner = 2 /\ Find(reg[Server], 1).role = Replicated
    /\ Find(reg[1], 1).owner = 2 /\ Find(reg[1], 1).role = Replicated

\* The ids of the records of R reachable from the ids of S through ParentId
\* links, S included; only the records with an id of ids count.
RECURSIVE Reach(_, _, _)
Reach(R, S, ids) ==
    LET T == S \cup {x.id : x \in {r \in R : r.parent \in S /\ r.id \in ids}}
    IN IF T = S THEN S ELSE Reach(R, T, ids)

\* What a hierarchical SetObjectOwnership(o, w, r) of peer p does to the
\* records of tree, which p owns: each ends with owner w and role r, one role
\* message is sent per record that changed, and no other record changes.
HierarchyApplied(p, tree, w, r) ==
    LET changed == {id \in tree : Find(reg'[p], id) # Find(reg[p], id)}
    IN /\ \A id \in tree :
             /\ HasRec(reg'[p], id)
             /\ Find(reg'[p], id).owner = w /\ Find(reg'[p], id).role = r
             /\ Cardinality(RoleMessages(id)) = IF id \in changed THEN 1 ELSE 0
       /\ Len(outbox') = Cardinality(changed)
       /\ \A x \in reg[p] : x.id \notin tree => x \in reg'[p]

\* The role that SetObjectOwnership allows an owner p to give with owner w.
RoleFor(p, w) == IF w = p THEN {OwnedAuthoritative} ELSE Roles \ {OwnedAuthoritative}

\* C26, as stated: after a hierarchical SetObjectOwnership(o, w, r) on a
\* peer that owns o and all records reachable from o through ParentId links,
\* every such record has owner w and role r, one role message was sent per
\* changed record, and the records outside the subtree are unchanged.
C26_HierarchicalOwnership ==
    [][\A p \in Peers : \A o \in DOMAIN world[p] : \A w \in Peers :
       \A r \in RoleFor(p, w) :
          LET tree == Reach(reg[p], {o}, {x.id : x \in reg[p]})
          IN /\ SetObjectOwnershipCall(p, o, w, r, TRUE)
             /\ HasRec(reg[p], o)
             /\ \A id \in tree : Find(reg[p], id).owner = p
             => HierarchyApplied(p, tree, w, r)]_vars

\* C26, amended: the same for the records reachable from o through records
\* whose objects are alive; a record whose object was destroyed, and what
\* lies below it, is left as it is.
C26_HierarchicalOwnershipLive ==
    [][\A p \in Peers : \A o \in DOMAIN world[p] : \A w \in Peers :
       \A r \in RoleFor(p, w) :
          LET tree == Reach(reg[p], {o}, DOMAIN world[p])
          IN /\ SetObjectOwnershipCall(p, o, w, r, TRUE)
             /\ HasRec(reg[p], o)
             /\ \A id \in tree : Find(reg[p], id).owner = p
             => HierarchyApplied(p, tree, w, r)]_vars

\* The server, owner of the root, the prefab instance below it and the
\* instance's script, has handed the root to client 1 hierarchically: the
\* three records have owner 1 and role Replicated and the call sent one
\* role message for each.
C26_Witness ==
    /\ \A id \in {1, 20, 21} :
          /\ Find(reg[Server], id).owner = 1
          /\ Find(reg[Server], id).role = Replicated
          /\ \E i \in 1..Len(outbox) :
                outbox[i].m.kind = "Role" /\ outbox[i].m.id = id
    /\ Len(outbox) = 3
    /\ \A i \in 1..Len(outbox) : outbox[i].phase = "api"

\* The first entry of the server's spawn queue for obj.
QueuedEntry(obj) ==
    spawnQ[Server][CHOOSE i \in 1..Len(spawnQ[Server]) :
                      /\ spawnQ[Server][i].obj = obj
                      /\ \A j \in 1..(i - 1) : spawnQ[Server][j].obj # obj]

\* The server was asked to spawn o and then to hand it to client c with role
\* Replicated, and has not ticked since: o is queued and either has no
\* record and the queued entry carries the ownership, or has a record that
\* names c.
SpawnedFor(o, c) ==
    /\ Queued(o)
    /\ IF HasRec(reg[Server], o)
       THEN LET r == Find(reg[Server], o)
            IN r.owner = c /\ r.role = Replicated /\ ~r.spawned
       ELSE LET e == QueuedEntry(o)
            IN e.hasOwn /\ e.owner = c /\ e.role = Replicated

\* C27: spawn then set_ownership is independent of prior registration.
\* The server's tick after SpawnObject(o) and SetObjectOwnership(o, c,
\* Replicated), with a client connected, sends one spawn message for o,
\* carrying owner c, and leaves o's record spawned, whether or not o was
\* registered before.
C27_SpawnThenSetOwnership ==
    [][updated'[Server] # updated[Server] /\ ReachesDrains(Server) =>
          \A o \in DOMAIN world[Server] : \A c \in Clients :
              SpawnedFor(o, c) =>
                 /\ Cardinality({i \in Sent(outbox', "Spawn", "spawn") :
                                    outbox'[i].m.id = o}) = 1
                 /\ \A i \in Sent(outbox', "Spawn", "spawn") :
                       outbox'[i].m.id = o => outbox'[i].m.owner = c
                 /\ HasRec(reg'[Server], o)
                 /\ Find(reg'[Server], o).spawned]_vars

\* The part of C27 for an object that was not registered before.
C27_Unregistered ==
    [][updated'[Server] # updated[Server] /\ ReachesDrains(Server) =>
          \A o \in DOMAIN world[Server] : \A c \in Clients :
              SpawnedFor(o, c) /\ ~HasRec(reg[Server], o) =>
                 /\ Cardinality({i \in Sent(outbox', "Spawn", "spawn") :
                                    outbox'[i].m.id = o}) = 1
                 /\ \A i \in Sent(outbox', "Spawn", "spawn") :
                       outbox'[i].m.id = o => outbox'[i].m.owner = c
                 /\ HasRec(reg'[Server], o)
                 /\ Find(reg'[Server], o).spawned]_vars

\* C28: distinct remote objects stay distinct.  No remap table maps two
\* different remote ids to the same local id; a peer that has handled spawn
\* messages for two different objects has a record for each.
C28_DistinctStayDistinct ==
    \A p \in Peers : \A j \in DOMAIN remap[p] : \A k \in DOMAIN remap[p] :
        j # k => /\ remap[p][j] # remap[p][k]
                 /\ HasRec(reg[p], remap[p][j]) /\ HasRec(reg[p], remap[p][k])

\* Every despawn queue has been drained and every message delivered; the
\* removal service of peer q has destroyed the objects handed to it, and q
\* has ended a frame since.
Settled(q) ==
    /\ \A p \in Peers : despawnQ[p] = <<>>
    /\ \A c \in Clients : down[c] = <<>> /\ up[c] = <<>>
    /\ unrel = {}
    /\ ~InFrame(q)
    /\ \A o \in DOMAIN world[q] : ~world[q][o].dying
    /\ q \notin hist.flushed

\* C29: despawn convergence.  After the owner of a spawned object despawned
\* it by DespawnObject, once the despawn queues are drained, all messages
\* are delivered and the ticks that follow have run, no peer that held a
\* record of the object holds one still; the owner may be the server or a
\* client.
C29_DespawnConvergence ==
    \A d \in hist.despawned :
        \A q \in d[3] : Settled(q) => q \notin HoldersOf(d[1])

\* The part of C29 for an object that the server owned.
C29_ServerDespawnConverges ==
    \A d \in hist.despawned :
        d[2] = Server => \A q \in d[3] : Settled(q) => q \notin HoldersOf(d[1])

\* The server despawned the root that both clients knew; client 1 handled
\* the despawn message and ended its frame, and holds no record of the root.
C29_ServerDespawnWitness ==
    /\ <<1, Server, Peers>> \in hist.despawned
    /\ Settled(1) /\ Settled(Server)
    /\ updated[1] > 0
    /\ 1 \notin HoldersOf(1) /\ Server \notin HoldersOf(1)

\* C30: a rejected replicate message has no effect.  When the replicate
\* handler drops a message (unknown object, sender not the owner, local role
\* OwnedAuthoritative, stale frame), the peer's registry and remap table are
\* as they were before the message.
C30_RejectedReplicateNoEffect ==
    [][\A x \in unrel : \A pick \in Picks(x.to, Local(x.to), x.m) :
       \A dup \in Outcomes :
          /\ ReceiveReplicate(x, pick, dup)
          /\ ~OnNetworkMessageObjectReplicate(x.to, x.from, x.m, pick, dup).acc
          => reg'[x.to] = reg[x.to] /\ remap'[x.to] = remap[x.to]]_vars

\* The part of C30 about the registry.
C30_RejectedReplicateKeepsRegistry ==
    [][\A x \in unrel : \A pick \in Picks(x.to, Local(x.to), x.m) :
       \A dup \in Outcomes :
          /\ ReceiveReplicate(x, pick, dup)
          /\ ~OnNetworkMessageObjectReplicate(x.to, x.from, x.m, pick, dup).acc
          => reg'[x.to] = reg[x.to]]_vars

\* C31: whenever a replication tick of a peer (pre-update followed by update)
\* returns, the remap table of that peer is no longer published to the
\* object lookup, whatever exit the update took.
C31_RemapBracketedByTick ==
    [][\A p \in Peers : updated'[p] # updated[p] => ~published'[p]]_vars

\* C31: a tick of a peer whose registry holds a record when the tick begins
\* leaves the remap table unpublished, on a server without connected clients
\* as well.
C31_UnpublishedWhenRegistered ==
    [][\A p \in Peers :
          updated'[p] # updated[p] /\ reg[p] # {} => ~published'[p]]_vars

\* C31: the server has ticked with a record in its registry and nobody
\* connected, and its remap table is not published.
C31_EarlyExitWitness ==
    /\ updated[Server] > 0
    /\ Connected = {}
    /\ reg[Server] # {}
    /\ ~published[Server]

\* The types from type up to its root, type first.
RECURSIVE ChainOf(_)
ChainOf(type) ==
    IF type = NoType THEN <<>> ELSE <<type>> \o ChainOf(GetBaseType(type))

\* The first type on the chain of type that has an entry in table or the
\* INetworkSerializable capability; NoType if the chain has none.
FirstProvider(table, type) ==
    LET ch == ChainOf(type)
        I == {i \in 1..Len(ch) :
                 ch[i] \in DOMAIN table \/ GetInterface(ch[i]) # NoInterface}
    IN IF I = {} THEN NoType
       ELSE ch[CHOOSE i \in I : \A j \in I : i <= j]

\* The invoke call c resolved as stated, from the table before to the one
\* after: a registered entry of the first providing type is used as it is;
\* without one the capability of that type is called with its offset as
\* tag and the entry is stored under that type; without a providing type the
\* call reports missing, calls nothing and leaves the table alone.
ResolvedAsStated(c, before, after) ==
    LET u == FirstProvider(before, c.type)
        off == GetInterface(u)
    IN IF u = NoType
       THEN c.failed /\ c.call = <<>> /\ after = before
       ELSE IF u \in DOMAIN before
       THEN /\ ~c.failed
            /\ c.call = <<before[u].methods[IF c.serialize THEN 1 ELSE 2],
                          before[u].tags[IF c.serialize THEN 1 ELSE 2]>>
            /\ after = before
       ELSE /\ ~c.failed
            /\ c.call = <<IF c.serialize THEN "INetworkSerializable_Serialize"
                          ELSE "INetworkSerializable_Deserialize", off>>
            /\ DOMAIN after = DOMAIN before \cup {u}
            /\ after[u] = [methods |-> <<"INetworkSerializable_Serialize",
                                         "INetworkSerializable_Deserialize">>,
                           tags |-> <<off, off>>]
            /\ \A t \in DOMAIN before : after[t] = before[t]

\* The register call c took effect: the type's entry is the one given,
\* whatever was there, and no other entry changed; a null handle registers
\* nothing.
RegisteredAsStated(c, before, after) ==
    IF c.type = NoType THEN after = before
    ELSE /\ DOMAIN after = DOMAIN before \cup {c.type}
         /\ after[c.type] = c.serializer
         /\ \A t \in DOMAIN before \ {c.type} : after[t] = before[t]

\* The call on peer p left the tables of the other processes alone.
OthersKept(p) == \A q \in Peers \ {p} : serial'[q] = serial[q]

\* C32: every InvokeSerializer call uses the entry registered for the type
\* if there is one, else the type's INetworkSerializable capability, which
\* it caches under that type, else resolves through the base type; it
\* reports missing exactly when no type on the chain has an entry or the
\* capability.  Every AddSerializer call replaces the entry of its type.
C32_SerializerResolution ==
    [][\A c \in hist'.serializerCall :
          IF c.op = "InvokeSerializer"
          THEN ResolvedAsStated(c, serial[c.peer], serial'[c.peer])
          ELSE RegisteredAsStated(c, serial[c.peer], serial'[c.peer])]_vars

\* C32: the same for every InvokeSerializer call that is given an instance
\* and a stream; a call without an instance or without a stream reports
\* missing whatever the table holds, calls nothing and leaves the table
\* alone.  The table is the one of the calling process: no call changes the
\* table of another peer.
C32_SerializerResolutionWithInstance ==
    [][\A c \in hist'.serializerCall :
          /\ OthersKept(c.peer)
          /\ IF c.op = "AddSerializer"
             THEN RegisteredAsStated(c, serial[c.peer], serial'[c.peer])
             ELSE IF c.valid
             THEN ResolvedAsStated(c, serial[c.peer], serial'[c.peer])
             ELSE c.failed /\ c.call = <<>> /\ serial' = serial]_vars

\* C32: a call for TLeaf with an instance and a stream was resolved two
\* base types up, to the serializer registered for TObject, while the table
\* holds the capability entry that an earlier call cached under TNet; the
\* table of the other process holds neither.
C32_Witness ==
    \E c \in hist.serializerCall :
       LET table == serial[c.peer]
       IN /\ c.op = "InvokeSerializer" /\ c.type = "TLeaf" /\ c.valid
          /\ ~c.failed
          /\ "TObject" \in DOMAIN table
          /\ c.call[1] = table["TObject"].methods[IF c.serialize THEN 1 ELSE 2]
          /\ "TLeaf" \notin DOMAIN table /\ "TScript" \notin DOMAIN table
          /\ "TNet" \in DOMAIN table
          /\ table["TNet"].methods[1] = "INetworkSerializable_Serialize"
          /\ \E q \in {Server, 1} \ {c.peer} : DOMAIN serial[q] = {}

\* C32: a registered serializer comes before the capability: TNet, which
\* implements INetworkSerializable, has a registered serializer in the table
\* and the last call for TNet called that one.
C32_ReplacedWitness ==
    \E c \in hist.serializerCall :
       LET table == serial[c.peer]
       IN /\ "TNet" \in DOMAIN table
          /\ table["TNet"] \in UserSerializers
          /\ c.op = "InvokeSerializer" /\ c.type = "TNet" /\ c.valid
          /\ c.call = <<table["TNet"].methods[1], table["TNet"].tags[1]>>

====
